---------------------------- MODULE Spec2Model ----------------------------
(***************************************************************************)
(* A model of the DataGSM OpenAPI Python SDK (package datagsm_openapi):    *)
(* the transport adapter (_http.py), the error taxonomy (exceptions.py),   *)
(* the parameter normalizer (_json.py and the to_params methods), the      *)
(* envelope decoder (api/_base.py with the pydantic models) and the        *)
(* resource accessors (api/student.py, club.py, project.py, neis.py).      *)
(***************************************************************************)
EXTENDS Integers, Sequences, FiniteSets, TLC

VARIABLES
    _client,    \* HttpClient._client: 0 for None, else the id of an httpx.Client
    conns,      \* every httpx.Client created so far, by id: its settings, open or not
    depth,      \* how many with-blocks on the client the caller is inside of
    last,       \* the last operation performed on the client and its outcome
    threads     \* the threads that call the client at once: where each is in
                \* HttpClient.get and what it holds

vars == <<_client, conns, depth, last, threads>>

(***************************************************************************)
(* Bounds of the model.                                                    *)
(***************************************************************************)
MaxConns == 3      \* httpx.Client objects created in one behaviour

(***************************************************************************)
(* Python values.  Every value carries a tag t, and the payload field has  *)
(* a name of its own per tag, so that any two values can be compared.      *)
(***************************************************************************)
None == [t |-> "None"]
PyInt(i) == [t |-> "int", i |-> i]
PyStr(s) == [t |-> "str", s |-> s]
PyBool(b) == [t |-> "bool", b |-> b]
PyList(items) == [t |-> "list", items |-> items]
PyDict(fields) == [t |-> "dict", fields |-> fields]
PyDate(y, m, d) == [t |-> "date", y |-> y, m |-> m, d |-> d]
PyEnum(cls, value) == [t |-> "enum", cls |-> cls, value |-> value]
PyModel(cls, attrs) == [t |-> "model", cls |-> cls, attrs |-> attrs]
PyDateTime(date, hh, mm, ss) == [t |-> "datetime", date |-> date, hh |-> hh, mm |-> mm, ss |-> ss]

\* bool(v): Python truthiness.  A member of a str-mixin Enum follows str.
Truthy(v) ==
    CASE v.t = "None" -> FALSE
      [] v.t = "int" -> v.i # 0
      [] v.t = "str" -> v.s # ""
      [] v.t = "bool" -> v.b
      [] v.t = "list" -> v.items # <<>>
      [] v.t = "dict" -> DOMAIN v.fields # {}
      [] v.t = "enum" -> v.value # ""
      [] OTHER -> TRUE

(***************************************************************************)
(* exceptions.py: the error taxonomy.  An exception is a record of its     *)
(* class name and its attributes.                                          *)
(***************************************************************************)
Taxonomy ==
    {"DataGsmException", "BadRequestException", "UnauthorizedException",
     "ForbiddenException", "NotFoundException", "RateLimitException",
     "ServerErrorException", "NetworkException", "ValidationException"}

\* DataGsmException.__init__, run for an object of class cls
DataGsmException(cls, message, status_code, response_body) ==
    [cls |-> cls, message |-> message, status_code |-> status_code,
     response_body |-> response_body]

BadRequestException(message, response_body) ==
    DataGsmException("BadRequestException", message, PyInt(400), response_body)

UnauthorizedException(message, response_body) ==
    DataGsmException("UnauthorizedException", message, PyInt(401), response_body)

ForbiddenException(message, response_body) ==
    DataGsmException("ForbiddenException", message, PyInt(403), response_body)

NotFoundException(message, response_body) ==
    DataGsmException("NotFoundException", message, PyInt(404), response_body)

RateLimitException(message, response_body) ==
    DataGsmException("RateLimitException", message, PyInt(429), response_body)

\* a faulty ServerErrorException: the status code given is dropped for the default
ServerErrorException_default_500(message, status_code, response_body) ==
    DataGsmException("ServerErrorException", message, PyInt(500), response_body)

ServerErrorException(message, status_code, response_body) ==
    DataGsmException("ServerErrorException", message, status_code, response_body)

\* a faulty NetworkException: the underlying exception is not kept
NetworkException_without_cause(message, original_exception) ==
    [cls |-> "NetworkException", message |-> message, status_code |-> None,
     response_body |-> None, original_exception |-> None]

NetworkException(message, original_exception) ==
    [cls |-> "NetworkException", message |-> message, status_code |-> None,
     response_body |-> None, original_exception |-> original_exception]

ValidationException(message, validation_errors) ==
    [cls |-> "ValidationException", message |-> message, status_code |-> None,
     response_body |-> None,
     validation_errors |->
         IF Truthy(validation_errors) THEN validation_errors ELSE PyList(<<>>)]

\* str(v), as an f-string formats a value
Str(v) ==
    CASE v.t = "str" -> v.s
      [] v.t = "int" -> ToString(v.i)
      [] v.t = "None" -> "None"

\* a __str__ that leaves the status code out
__str___message_only(self) == Str(self.message)

\* DataGsmException.__str__, inherited by every class of the taxonomy
__str__(self) ==
    IF Truthy(self.status_code)
    THEN "[" \o Str(self.status_code) \o "] " \o Str(self.message)
    ELSE Str(self.message)

(***************************************************************************)
(* The httpx library as the transport adapter sees it.                     *)
(*   - a reply is either a failure (an httpx exception raised by           *)
(*     client.get) or a response with a status code and a body;            *)
(*   - a body is a document: its text and what json() decodes it to.       *)
(***************************************************************************)
Undecodable == [t |-> "undecodable"]

Doc(text, json) == [text |-> text, json |-> json]

\* the direct base class of each httpx exception class
HttpxBase ==
    [HTTPStatusError |-> "HTTPError", RequestError |-> "HTTPError",
     TransportError |-> "RequestError", TimeoutException |-> "TransportError",
     NetworkError |-> "TransportError", ConnectError |-> "NetworkError",
     ReadError |-> "NetworkError", ConnectTimeout |-> "TimeoutException",
     ReadTimeout |-> "TimeoutException", RemoteProtocolError |-> "TransportError",
     HTTPError |-> "Exception", JSONDecodeError |-> "Exception"]

RECURSIVE IsSubclass(_, _)
IsSubclass(cls, base) ==
    \/ cls = base
    \/ cls \in DOMAIN HttpxBase /\ IsSubclass(HttpxBase[cls], base)

\* isinstance(e, base) for a raised exception e
IsInstance(e, base) == IsSubclass(e.cls, base)

Failure(cls, text) == [kind |-> "failure", exc |-> [cls |-> cls, str |-> text]]

Response(status_code, body) ==
    [kind |-> "response", status_code |-> status_code, body |-> body]

\* httpx.Response.is_success
IsSuccess(status_code) == 200 <= status_code /\ status_code <= 299

(***************************************************************************)
(* _http.py: HttpClient.                                                   *)
(***************************************************************************)
Return(value) == [kind |-> "return", value |-> value]
Raise(exc) == [kind |-> "raise", exc |-> exc]

\* HttpClient._handle_error, its try block: response.json() succeeds and the
\* value decoded has a get method
HasErrorBody(response) ==
    response.body.json # Undecodable /\ response.body.json.t = "dict"

\* error_body in HttpClient._handle_error
error_body(response) ==
    IF HasErrorBody(response) THEN response.body.json ELSE None

\* a faulty error_message: without a message field the raw text is not used
error_message_without_text(response) ==
    IF HasErrorBody(response) /\ "message" \in DOMAIN response.body.json.fields
    THEN response.body.json.fields["message"]
    ELSE PyStr("HTTP " \o ToString(response.status_code) \o " error")

\* error_message in HttpClient._handle_error
error_message(response) ==
    IF HasErrorBody(response)
    THEN IF "message" \in DOMAIN response.body.json.fields
         THEN response.body.json.fields["message"]
         ELSE PyStr(response.body.text)
    ELSE IF response.body.text # ""
         THEN PyStr(response.body.text)
         ELSE PyStr("HTTP " \o ToString(response.status_code) \o " error")

\* a faulty _handle_error: the server error range closed at 600
_handle_error_upto_600(response) ==
    LET status_code == response.status_code
    IN  IF status_code = 400
        THEN BadRequestException(error_message(response), error_body(response))
        ELSE IF status_code = 401
        THEN UnauthorizedException(error_message(response), error_body(response))
        ELSE IF status_code = 403
        THEN ForbiddenException(error_message(response), error_body(response))
        ELSE IF status_code = 404
        THEN NotFoundException(error_message(response), error_body(response))
        ELSE IF status_code = 429
        THEN RateLimitException(error_message(response), error_body(response))
        ELSE IF 500 <= status_code /\ status_code <= 600
        THEN ServerErrorException(error_message(response), PyInt(status_code),
                                  error_body(response))
        ELSE DataGsmException("DataGsmException", error_message(response),
                              PyInt(status_code), error_body(response))

\* HttpClient._handle_error: the exception it raises for a response
_handle_error(response) ==
    LET status_code == response.status_code
    IN  IF status_code = 400
        THEN BadRequestException(error_message(response), error_body(response))
        ELSE IF status_code = 401
        THEN UnauthorizedException(error_message(response), error_body(response))
        ELSE IF status_code = 403
        THEN ForbiddenException(error_message(response), error_body(response))
        ELSE IF status_code = 404
        THEN NotFoundException(error_message(response), error_body(response))
        ELSE IF status_code = 429
        THEN RateLimitException(error_message(response), error_body(response))
        ELSE IF 500 <= status_code /\ status_code < 600
        THEN ServerErrorException(error_message(response), PyInt(status_code),
                                  error_body(response))
        ELSE DataGsmException("DataGsmException", error_message(response),
                              PyInt(status_code), error_body(response))

\* the try block of HttpClient.get once the httpx.Client is at hand:
\* client.get, raise_for_status, response.json
GetTryBody(reply) ==
    IF reply.kind = "failure" THEN Raise(reply.exc)
    ELSE IF ~IsSuccess(reply.status_code)
         THEN Raise([cls |-> "HTTPStatusError", response |-> reply])
    ELSE IF reply.body.json = Undecodable
         THEN Raise([cls |-> "JSONDecodeError", str |-> "Expecting value"])
    ELSE Return(reply.body.json)

\* HttpClient.get: the except clauses, in order
HttpGet(reply) ==
    LET r == GetTryBody(reply)
    IN  IF r.kind = "return" THEN r
        ELSE IF IsInstance(r.exc, "HTTPStatusError")
             THEN Raise(_handle_error(r.exc.response))
        ELSE IF IsInstance(r.exc, "ConnectError") \/ IsInstance(r.exc, "TimeoutException")
             THEN Raise(NetworkException(PyStr("Network error: " \o r.exc.str), r.exc))
        ELSE IF IsInstance(r.exc, "HTTPError")
             THEN Raise(NetworkException(PyStr("HTTP error: " \o r.exc.str), r.exc))
        ELSE r


(***************************************************************************)
(* _json.py: the parameter normalizer.                                     *)
(***************************************************************************)
\* the decimal digits of n, zero-padded on the left to width characters
RECURSIVE ZeroPad(_, _)
ZeroPad(n, width) ==
    LET digits == ToString(n)
    IN  IF Len(digits) >= width THEN digits
        ELSE "0" \o ZeroPad(n, width - 1)

\* a date format without the zero padding: Y-M-D
DateUnpadded(value) ==
    ToString(value.y) \o "-" \o ToString(value.m) \o "-" \o ToString(value.d)

\* datetime.date.isoformat: YYYY-MM-DD
DateIsoFormat(value) ==
    ZeroPad(value.y, 4) \o "-" \o ZeroPad(value.m, 2) \o "-" \o ZeroPad(value.d, 2)

serialize_date(value) == PyStr(DateIsoFormat(value))

\* datetime.datetime.isoformat: YYYY-MM-DDTHH:MM:SS
serialize_datetime(value) ==
    PyStr(DateIsoFormat(value.date) \o "T" \o ZeroPad(value.hh, 2) \o ":"
          \o ZeroPad(value.mm, 2) \o ":" \o ZeroPad(value.ss, 2))

\* str(value) of a bool, without the lower()
BoolStr(b) == IF b THEN "True" ELSE "False"

\* str(value).lower() of a bool
BoolLower(b) == IF b THEN "true" ELSE "false"

\* the value clean_params stores for a value that is not None
CleanValue(value) ==
    IF value.t = "datetime" THEN serialize_datetime(value)
    ELSE IF value.t = "date" THEN serialize_date(value)
    ELSE IF value.t = "bool" THEN PyStr(BoolLower(value.b))
    ELSE value

\* a faulty clean_params: the values are serialized, a None among them is kept
clean_params_keeping_none(params) ==
    [key \in DOMAIN params |-> CleanValue(params[key])]

\* a faulty clean_params: every falsy value is dropped, not only None
clean_params_dropping_falsy(params) ==
    [key \in {k \in DOMAIN params : Truthy(params[k])} |-> CleanValue(params[key])]

\* clean_params, on the dict's key -> value function
clean_params(params) ==
    [key \in {k \in DOMAIN params : params[k] # None} |-> CleanValue(params[key])]


(***************************************************************************)
(* The request dataclasses of api/student.py, api/club.py, api/project.py  *)
(* and api/neis.py, with their defaults and their to_params methods.       *)
(***************************************************************************)
\* "x.value if x else None" for an enum-typed field x
ValueIfSet(x) == IF Truthy(x) THEN PyStr(x.value) ELSE None

\* a StudentRequest() with the page size of the other list requests
StudentRequest_size_100 ==
    [t |-> "dataclass", cls |-> "StudentRequest", student_id |-> None, name |-> None, email |-> None,
     grade |-> None, class_num |-> None, number |-> None, sex |-> None,
     role |-> None, dormitory_room |-> None, is_leave_school |-> None,
     is_graduate |-> None, page |-> PyInt(0), size |-> PyInt(100),
     sort_by |-> None, sort_direction |-> PyEnum("SortDirection", "ASC")]

\* StudentRequest()
StudentRequest ==
    [t |-> "dataclass", cls |-> "StudentRequest", student_id |-> None, name |-> None, email |-> None,
     grade |-> None, class_num |-> None, number |-> None, sex |-> None,
     role |-> None, dormitory_room |-> None, is_leave_school |-> None,
     is_graduate |-> None, page |-> PyInt(0), size |-> PyInt(300),
     sort_by |-> None, sort_direction |-> PyEnum("SortDirection", "ASC")]

StudentRequest_to_params(self) ==
    [studentId |-> self.student_id,
     name |-> self.name,
     email |-> self.email,
     grade |-> self.grade,
     classNum |-> self.class_num,
     number |-> self.number,
     sex |-> ValueIfSet(self.sex),
     role |-> ValueIfSet(self.role),
     dormitoryRoom |-> self.dormitory_room,
     isLeaveSchool |-> self.is_leave_school,
     isGraduated |-> self.is_graduate,
     page |-> self.page,
     size |-> self.size,
     sortBy |-> ValueIfSet(self.sort_by),
     sortDirection |-> PyStr(self.sort_direction.value)]

\* ClubRequest()
ClubRequest ==
    [t |-> "dataclass", cls |-> "ClubRequest", club_id |-> None, club_name |-> None, club_type |-> None,
     page |-> PyInt(0), size |-> PyInt(100),
     include_leader_in_participants |-> PyBool(FALSE),
     sort_by |-> None, sort_direction |-> PyEnum("SortDirection", "ASC")]

ClubRequest_to_params(self) ==
    [clubId |-> self.club_id,
     clubName |-> self.club_name,
     clubType |-> ValueIfSet(self.club_type),
     page |-> self.page,
     size |-> self.size,
     includeLeaderInParticipants |-> self.include_leader_in_participants,
     sortBy |-> ValueIfSet(self.sort_by),
     sortDirection |-> PyStr(self.sort_direction.value)]

\* ProjectRequest()
ProjectRequest ==
    [t |-> "dataclass", cls |-> "ProjectRequest", project_id |-> None, project_name |-> None,
     club_id |-> None, page |-> PyInt(0), size |-> PyInt(100),
     sort_by |-> None, sort_direction |-> PyEnum("SortDirection", "ASC")]

ProjectRequest_to_params(self) ==
    [projectId |-> self.project_id,
     projectName |-> self.project_name,
     clubId |-> self.club_id,
     page |-> self.page,
     size |-> self.size,
     sortBy |-> ValueIfSet(self.sort_by),
     sortDirection |-> PyStr(self.sort_direction.value)]

\* MealRequest()
MealRequest ==
    [t |-> "dataclass", cls |-> "MealRequest", date |-> None, from_date |-> None, to_date |-> None]

MealRequest_to_params(self) ==
    [date |-> self.date, fromDate |-> self.from_date, toDate |-> self.to_date]

\* ScheduleRequest()
ScheduleRequest ==
    [t |-> "dataclass", cls |-> "ScheduleRequest", date |-> None, from_date |-> None, to_date |-> None]

ScheduleRequest_to_params(self) ==
    [date |-> self.date, fromDate |-> self.from_date, toDate |-> self.to_date]

\* request.to_params(), by the class of the request
to_params(request) ==
    CASE request.cls = "StudentRequest" -> StudentRequest_to_params(request)
      [] request.cls = "ClubRequest" -> ClubRequest_to_params(request)
      [] request.cls = "ProjectRequest" -> ProjectRequest_to_params(request)
      [] request.cls = "MealRequest" -> MealRequest_to_params(request)
      [] request.cls = "ScheduleRequest" -> ScheduleRequest_to_params(request)


(***************************************************************************)
(* models/: the pydantic models, as field tables, and the enumerations.    *)
(***************************************************************************)
TInt == [k |-> "int"]
TIntRange(ge, le) == [k |-> "int_range", ge |-> ge, le |-> le]
TStr == [k |-> "str"]
TBool == [k |-> "bool"]
TDate == [k |-> "date"]
TEnum(cls) == [k |-> "enum", cls |-> cls]
TOptional(of) == [k |-> "optional", of |-> of]
TList(of) == [k |-> "list", of |-> of]
TModel(cls) == [k |-> "model", cls |-> cls]
\* CommonApiResponse[of]
TCommonApiResponse(of) == [k |-> "model", cls |-> "CommonApiResponse", of |-> of]

Field(name, alias, type, required, default) ==
    [name |-> name, alias |-> alias, type |-> type, required |-> required,
     default |-> default]
\* Field(...): a required field
Required(name, alias, type) == Field(name, alias, type, TRUE, None)
\* Optional[type] = Field(None)
Nullable(name, alias, type) == Field(name, alias, TOptional(type), FALSE, None)
\* list[type] = Field(default_factory=list)
Listed(name, alias, type) == Field(name, alias, TList(type), FALSE, PyList(<<>>))

\* models/enums.py
EnumValues(cls) ==
    CASE cls = "Sex" -> {"MAN", "WOMAN"}
      [] cls = "Major" -> {"SW_DEVELOPMENT", "SMART_IOT", "AI"}
      [] cls = "ClubType" -> {"MAJOR_CLUB", "JOB_CLUB", "AUTONOMOUS_CLUB"}
      [] cls = "StudentRole" ->
            {"GENERAL_STUDENT", "STUDENT_COUNCIL", "DORMITORY_MANAGER", "GRADUATE"}
      [] cls = "MealType" -> {"BREAKFAST", "LUNCH", "DINNER"}
      [] cls = "SortDirection" -> {"ASC", "DESC"}

\* models/_common.py
CommonApiResponse(of) ==
    <<Required("status", "status", TStr),
      Required("code", "code", TInt),
      Required("message", "message", TStr),
      Nullable("data", "data", of)>>

\* models/club.py
Club ==
    <<Required("id", "id", TInt),
      Required("name", "name", TStr),
      Required("type", "type", TEnum("ClubType"))>>

\* a faulty ClubDetail: the club type declared as a plain string
ClubDetail_type_as_str ==
    <<Required("id", "id", TInt),
      Required("name", "name", TStr),
      Required("type", "type", TStr),
      Required("leader", "leader", TModel("ParticipantInfo")),
      Listed("participants", "participants", TModel("ParticipantInfo"))>>

ClubDetail ==
    <<Required("id", "id", TInt),
      Required("name", "name", TStr),
      Required("type", "type", TEnum("ClubType")),
      Required("leader", "leader", TModel("ParticipantInfo")),
      Listed("participants", "participants", TModel("ParticipantInfo"))>>

ClubResponse ==
    <<Required("total_pages", "totalPages", TInt),
      Required("total_elements", "totalElements", TInt),
      Listed("clubs", "clubs", TModel("ClubDetail"))>>

\* models/project.py
ParticipantInfo ==
    <<Required("id", "id", TInt),
      Required("name", "name", TStr),
      Required("email", "email", TStr),
      Required("student_number", "studentNumber", TInt),
      Required("major", "major", TEnum("Major")),
      Required("sex", "sex", TEnum("Sex"))>>

Project ==
    <<Required("id", "id", TInt),
      Required("name", "name", TStr),
      Nullable("description", "description", TStr),
      Nullable("club", "club", TModel("Club")),
      Listed("participants", "participants", TModel("ParticipantInfo"))>>

ProjectResponse ==
    <<Required("total_pages", "totalPages", TInt),
      Required("total_elements", "totalElements", TInt),
      Listed("projects", "projects", TModel("Project"))>>

\* models/student.py
Student ==
    <<Required("id", "id", TInt),
      Required("name", "name", TStr),
      Required("sex", "sex", TEnum("Sex")),
      Required("email", "email", TStr),
      Required("grade", "grade", TIntRange(1, 3)),
      Required("class_num", "classNum", TInt),
      Required("number", "number", TInt),
      Required("student_number", "studentNumber", TInt),
      Required("major", "major", TEnum("Major")),
      Required("role", "role", TEnum("StudentRole")),
      Nullable("dormitory_floor", "dormitoryFloor", TInt),
      Nullable("dormitory_room", "dormitoryRoom", TInt),
      Required("is_leave_school", "isLeaveSchool", TBool),
      Nullable("major_club", "majorClub", TModel("Club")),
      Nullable("job_club", "jobClub", TModel("Club")),
      Nullable("autonomous_club", "autonomousClub", TModel("Club"))>>

StudentResponse ==
    <<Listed("students", "students", TModel("Student")),
      Required("total_elements", "totalElements", TInt),
      Required("total_pages", "totalPages", TInt)>>

\* models/neis.py
Meal ==
    <<Required("meal_id", "mealId", TStr),
      Required("school_code", "schoolCode", TStr),
      Required("school_name", "schoolName", TStr),
      Required("office_code", "officeCode", TStr),
      Required("office_name", "officeName", TStr),
      Required("meal_date", "mealDate", TDate),
      Required("meal_type", "mealType", TEnum("MealType")),
      Listed("meal_menu", "mealMenu", TStr),
      Listed("meal_allergy_info", "mealAllergyInfo", TStr),
      Nullable("meal_calories", "mealCalories", TStr),
      Nullable("origin_info", "originInfo", TStr),
      Nullable("nutrition_info", "nutritionInfo", TStr),
      Nullable("meal_serve_count", "mealServeCount", TInt)>>

Schedule ==
    <<Required("schedule_id", "scheduleId", TStr),
      Required("school_code", "schoolCode", TStr),
      Required("school_name", "schoolName", TStr),
      Required("office_code", "officeCode", TStr),
      Required("office_name", "officeName", TStr),
      Required("schedule_date", "scheduleDate", TDate),
      Nullable("academic_year", "academicYear", TStr),
      Nullable("event_name", "eventName", TStr),
      Nullable("event_content", "eventContent", TStr),
      Nullable("day_category", "dayCategory", TStr),
      Nullable("school_course_type", "schoolCourseType", TStr),
      Nullable("day_night_type", "dayNightType", TStr),
      Listed("target_grades", "targetGrades", TInt)>>

\* the fields of a model type
ModelFields(ty) ==
    CASE ty.cls = "CommonApiResponse" -> CommonApiResponse(ty.of)
      [] ty.cls = "Club" -> Club
      [] ty.cls = "ClubDetail" -> ClubDetail
      [] ty.cls = "ClubResponse" -> ClubResponse
      [] ty.cls = "ParticipantInfo" -> ParticipantInfo
      [] ty.cls = "Project" -> Project
      [] ty.cls = "ProjectResponse" -> ProjectResponse
      [] ty.cls = "Student" -> Student
      [] ty.cls = "StudentResponse" -> StudentResponse
      [] ty.cls = "Meal" -> Meal
      [] ty.cls = "Schedule" -> Schedule

\* model_config: ConfigDict(populate_by_name=True) on every model but the envelope
PopulateByName(ty) == ty.cls # "CommonApiResponse"


(***************************************************************************)
(* pydantic's model_validate in its default (lax) mode, on the Python      *)
(* value json() returned.  The result is the list of errors, each with its *)
(* type and its location, and the validated value when there is no error.  *)
(***************************************************************************)
Valid(val) == [errs |-> <<>>, val |-> val]
Invalid(type, loc) == [errs |-> <<[type |-> type, loc |-> loc]>>, val |-> None]

Digits == <<"0", "1", "2", "3", "4", "5", "6", "7", "8", "9">>

\* a string of one decimal digit or more
AllDigits(s) ==
    Len(s) > 0 /\ \A i \in 1..Len(s) : \E d \in 1..10 : Digits[d] = SubSeq(s, i, i)

\* the number a string of decimal digits denotes
RECURSIVE DigitsToNat(_)
DigitsToNat(s) ==
    IF Len(s) = 0 THEN 0
    ELSE 10 * DigitsToNat(SubSeq(s, 1, Len(s) - 1)) + (CHOOSE d \in 1..10 : Digits[d] = SubSeq(s, Len(s), Len(s))) - 1

IsLeapYear(y) == (y % 4 = 0 /\ y % 100 # 0) \/ y % 400 = 0

DaysInMonth(y, m) ==
    IF m = 2 THEN (IF IsLeapYear(y) THEN 29 ELSE 28)
    ELSE IF m \in {4, 6, 9, 11} THEN 30 ELSE 31

\* an int field: an int, a bool, or a string of digits
ValidateInt(v, loc) ==
    IF v.t = "int" THEN Valid(v)
    ELSE IF v.t = "bool" THEN Valid(PyInt(IF v.b THEN 1 ELSE 0))
    ELSE IF v.t = "str"
         THEN IF AllDigits(v.s) THEN Valid(PyInt(DigitsToNat(v.s)))
              ELSE Invalid("int_parsing", loc)
    ELSE Invalid("int_type", loc)

\* an int field with Field(ge=..., le=...)
ValidateIntRange(ty, v, loc) ==
    LET r == ValidateInt(v, loc)
    IN  IF r.errs # <<>> THEN r
        ELSE IF r.val.i < ty.ge THEN Invalid("greater_than_equal", loc)
        ELSE IF r.val.i > ty.le THEN Invalid("less_than_equal", loc)
        ELSE r

\* a str field: a str and nothing else
ValidateStr(v, loc) ==
    IF v.t = "str" THEN Valid(v) ELSE Invalid("string_type", loc)

\* a bool field: a bool, 0 or 1, or one of the accepted words
ValidateBool(v, loc) ==
    IF v.t = "bool" THEN Valid(v)
    ELSE IF v.t = "int"
         THEN IF v.i \in {0, 1} THEN Valid(PyBool(v.i = 1))
              ELSE Invalid("bool_parsing", loc)
    ELSE IF v.t = "str"
         THEN IF v.s \in {"true", "1", "yes", "on", "t", "y"} THEN Valid(PyBool(TRUE))
              ELSE IF v.s \in {"false", "0", "no", "off", "f", "n"} THEN Valid(PyBool(FALSE))
              ELSE Invalid("bool_parsing", loc)
    ELSE Invalid("bool_type", loc)

\* a date field: a string YYYY-MM-DD naming a day of the calendar
ValidateDate(v, loc) ==
    IF v.t # "str" THEN Invalid("date_type", loc)
    ELSE IF ~(/\ Len(v.s) = 10
              /\ SubSeq(v.s, 5, 5) = "-"
              /\ SubSeq(v.s, 8, 8) = "-"
              /\ AllDigits(SubSeq(v.s, 1, 4))
              /\ AllDigits(SubSeq(v.s, 6, 7))
              /\ AllDigits(SubSeq(v.s, 9, 10)))
         THEN Invalid("date_from_datetime_parsing", loc)
    ELSE LET y == DigitsToNat(SubSeq(v.s, 1, 4))
             m == DigitsToNat(SubSeq(v.s, 6, 7))
             d == DigitsToNat(SubSeq(v.s, 9, 10))
         IN  IF m \in 1..12 /\ d >= 1 /\ d <= DaysInMonth(y, m) /\ y >= 1
             THEN Valid(PyDate(y, m, d))
             ELSE Invalid("date_from_datetime_parsing", loc)

\* an enum field: the value of one of the members
ValidateEnum(ty, v, loc) ==
    IF v.t = "str" /\ v.s \in EnumValues(ty.cls) THEN Valid(PyEnum(ty.cls, v.s))
    ELSE Invalid("enum", loc)

RECURSIVE Validate(_, _, _), ValidateItems(_, _, _, _), ValidateFields(_, _, _, _, _)
Validate(ty, v, loc) ==
    CASE ty.k = "int" -> ValidateInt(v, loc)
      [] ty.k = "int_range" -> ValidateIntRange(ty, v, loc)
      [] ty.k = "str" -> ValidateStr(v, loc)
      [] ty.k = "bool" -> ValidateBool(v, loc)
      [] ty.k = "date" -> ValidateDate(v, loc)
      [] ty.k = "enum" -> ValidateEnum(ty, v, loc)
      [] ty.k = "optional" ->
            IF v = None THEN Valid(None) ELSE Validate(ty.of, v, loc)
      [] ty.k = "list" ->
            IF v.t # "list" THEN Invalid("list_type", loc)
            ELSE LET r == ValidateItems(ty.of, v.items, loc, 1)
                 IN  [errs |-> r.errs, val |-> PyList(r.val)]
      [] ty.k = "model" ->
            IF v.t # "dict" THEN Invalid("model_type", loc)
            ELSE LET r == ValidateFields(ty, ModelFields(ty), v.fields, loc, 1)
                 IN  [errs |-> r.errs, val |-> PyModel(ty.cls, r.val)]

\* the items of a list from the i-th on, each at its 0-based index
ValidateItems(ty, items, loc, i) ==
    IF i > Len(items) THEN [errs |-> <<>>, val |-> <<>>]
    ELSE LET head == Validate(ty, items[i], Append(loc, ToString(i - 1)))
             rest == ValidateItems(ty, items, loc, i + 1)
         IN  [errs |-> head.errs \o rest.errs, val |-> <<head.val>> \o rest.val]

\* the fields of a model from the i-th on, in the order of their declaration;
\* a field is read from its alias, or with populate_by_name from its name
ValidateFields(ty, fields, obj, loc, i) ==
    IF i > Len(fields) THEN [errs |-> <<>>, val |-> <<>>]
    ELSE LET f == fields[i]
             key == IF f.alias \in DOMAIN obj THEN f.alias
                    ELSE IF PopulateByName(ty) /\ f.name \in DOMAIN obj THEN f.name
                    ELSE ""
             head == IF key # "" THEN Validate(f.type, obj[key], Append(loc, f.alias))
                     ELSE IF f.required THEN Invalid("missing", Append(loc, f.alias))
                     ELSE Valid(f.default)
             rest == ValidateFields(ty, fields, obj, loc, i + 1)
         IN  [errs |-> head.errs \o rest.errs, val |-> (f.name :> head.val) @@ rest.val]

\* str(e) of a pydantic ValidationError: its headline
ValidationErrorStr(ty, errs) ==
    ToString(Len(errs)) \o " validation error" \o (IF Len(errs) = 1 THEN "" ELSE "s")
    \o " for " \o ty.cls


(***************************************************************************)
(* api/_base.py: BaseApi._get.  The result of an operation is the list of  *)
(* HTTP requests it handed to the transport and its outcome: the value     *)
(* returned or the exception raised.                                       *)
(***************************************************************************)
\* a faulty ParseAsCommonApiResponse: the data is returned without the check
\* that it is not None
ParseAsCommonApiResponse_unchecked(response_type, response_data) ==
    LET ty == TCommonApiResponse(response_type)
        wrapped_response == Validate(ty, response_data, <<>>)
    IN  IF wrapped_response.errs # <<>>
        THEN Raise(ValidationException(
                 PyStr("Response validation failed: "
                       \o ValidationErrorStr(ty, wrapped_response.errs)),
                 PyList(wrapped_response.errs)))
        ELSE Return(wrapped_response.val.attrs.data)

\* a ParseAsCommonApiResponse that rejects an envelope whose status is not "success"
ParseAsCommonApiResponse_checking_status(response_type, response_data) ==
    LET ty == TCommonApiResponse(response_type)
        wrapped_response == Validate(ty, response_data, <<>>)
    IN  IF wrapped_response.errs # <<>>
        THEN Raise(ValidationException(
                 PyStr("Response validation failed: "
                       \o ValidationErrorStr(ty, wrapped_response.errs)),
                 PyList(wrapped_response.errs)))
        ELSE IF wrapped_response.val.attrs.status # PyStr("success")
             THEN Raise(DataGsmException("DataGsmException",
                                         wrapped_response.val.attrs.message,
                                         wrapped_response.val.attrs.code, None))
        ELSE IF wrapped_response.val.attrs.data = None
             THEN Raise(ValidationException(PyStr("Response data is None"), PyList(<<>>)))
        ELSE Return(wrapped_response.val.attrs.data)

\* a faulty ParseAsCommonApiResponse: data that is falsy counts as missing
ParseAsCommonApiResponse_falsy(response_type, response_data) ==
    LET ty == TCommonApiResponse(response_type)
        wrapped_response == Validate(ty, response_data, <<>>)
    IN  IF wrapped_response.errs # <<>>
        THEN Raise(ValidationException(
                 PyStr("Response validation failed: "
                       \o ValidationErrorStr(ty, wrapped_response.errs)),
                 PyList(wrapped_response.errs)))
        ELSE IF ~Truthy(wrapped_response.val.attrs.data)
             THEN Raise(ValidationException(PyStr("Response data is None"), PyList(<<>>)))
        ELSE Return(wrapped_response.val.attrs.data)

\* BaseApi._get from "Parse as CommonApiResponse" on: the try block with its
\* except clause, on the value HttpClient.get returned
ParseAsCommonApiResponse(response_type, response_data) ==
    LET ty == TCommonApiResponse(response_type)
        wrapped_response == Validate(ty, response_data, <<>>)
    IN  IF wrapped_response.errs # <<>>
        THEN Raise(ValidationException(
                 PyStr("Response validation failed: "
                       \o ValidationErrorStr(ty, wrapped_response.errs)),
                 PyList(wrapped_response.errs)))
        ELSE IF wrapped_response.val.attrs.data = None
             THEN Raise(ValidationException(PyStr("Response data is None"), PyList(<<>>)))
        ELSE Return(wrapped_response.val.attrs.data)

BaseApi_get(path, params, response_type, reply) ==
    LET clean == IF Truthy(params) THEN PyDict(clean_params(params.fields)) ELSE None
        response_data == HttpGet(reply)
        outcome ==
            IF response_data.kind = "raise" THEN response_data
            ELSE IF response_type = None THEN response_data
            ELSE ParseAsCommonApiResponse(response_type, response_data.value)
    IN  [requests |-> <<[method |-> "GET", path |-> path, params |-> clean]>>,
         outcome |-> outcome]

(***************************************************************************)
(* The resource accessors.                                                 *)
(***************************************************************************)
\* api/student.py
get_students(request, reply) ==
    LET req == IF Truthy(request) THEN request ELSE StudentRequest
    IN  BaseApi_get("/v1/students", PyDict(to_params(req)),
                    TModel("StudentResponse"), reply)

\* a faulty get_student: a list call that failed is made once more
get_student_retrying(student_id, reply) ==
    LET request == [StudentRequest EXCEPT !.student_id = student_id]
        response == get_students(request, reply)
        again == get_students(request, reply)
    IN  IF response.outcome.kind = "raise"
        THEN [requests |-> response.requests \o again.requests, outcome |-> again.outcome]
        ELSE IF Truthy(response.outcome.value.attrs.students)
             THEN [response EXCEPT
                      !.outcome = Return(response.outcome.value.attrs.students.items[1])]
        ELSE [response EXCEPT !.outcome = Return(None)]

get_student(student_id, reply) ==
    LET request == [StudentRequest EXCEPT !.student_id = student_id]
        response == get_students(request, reply)
    IN  IF response.outcome.kind = "raise" THEN response
        ELSE IF Truthy(response.outcome.value.attrs.students)
             THEN [response EXCEPT
                      !.outcome = Return(response.outcome.value.attrs.students.items[1])]
        ELSE [response EXCEPT !.outcome = Return(None)]

\* api/club.py
get_clubs(request, reply) ==
    LET req == IF Truthy(request) THEN request ELSE ClubRequest
    IN  BaseApi_get("/v1/clubs", PyDict(to_params(req)),
                    TModel("ClubResponse"), reply)

\* a faulty get_club: the last item of the list is returned
get_club_last(club_id, reply) ==
    LET request == [ClubRequest EXCEPT !.club_id = club_id]
        response == get_clubs(request, reply)
    IN  IF response.outcome.kind = "raise" THEN response
        ELSE IF Truthy(response.outcome.value.attrs.clubs)
             THEN [response EXCEPT
                      !.outcome = Return(response.outcome.value.attrs.clubs.items[
                                             Len(response.outcome.value.attrs.clubs.items)])]
        ELSE [response EXCEPT !.outcome = Return(None)]

get_club(club_id, reply) ==
    LET request == [ClubRequest EXCEPT !.club_id = club_id]
        response == get_clubs(request, reply)
    IN  IF response.outcome.kind = "raise" THEN response
        ELSE IF Truthy(response.outcome.value.attrs.clubs)
             THEN [response EXCEPT
                      !.outcome = Return(response.outcome.value.attrs.clubs.items[1])]
        ELSE [response EXCEPT !.outcome = Return(None)]

\* api/project.py
get_projects(request, reply) ==
    LET req == IF Truthy(request) THEN request ELSE ProjectRequest
    IN  BaseApi_get("/v1/projects", PyDict(to_params(req)),
                    TModel("ProjectResponse"), reply)

\* a faulty get_project: a project the service does not find is reported as None
get_project_none_on_404(project_id, reply) ==
    LET request == [ProjectRequest EXCEPT !.project_id = project_id]
        response == get_projects(request, reply)
    IN  IF response.outcome.kind = "raise"
        THEN IF response.outcome.exc.cls = "NotFoundException"
             THEN [response EXCEPT !.outcome = Return(None)]
             ELSE response
        ELSE IF Truthy(response.outcome.value.attrs.projects)
             THEN [response EXCEPT
                      !.outcome = Return(response.outcome.value.attrs.projects.items[1])]
        ELSE [response EXCEPT !.outcome = Return(None)]

get_project(project_id, reply) ==
    LET request == [ProjectRequest EXCEPT !.project_id = project_id]
        response == get_projects(request, reply)
    IN  IF response.outcome.kind = "raise" THEN response
        ELSE IF Truthy(response.outcome.value.attrs.projects)
             THEN [response EXCEPT
                      !.outcome = Return(response.outcome.value.attrs.projects.items[1])]
        ELSE [response EXCEPT !.outcome = Return(None)]

\* a faulty get_meals: a request without a date is given today's
get_meals_dated(request, today, reply) ==
    LET req == IF Truthy(request) /\ request.date # None THEN request
               ELSE IF Truthy(request) THEN [request EXCEPT !.date = today]
               ELSE [MealRequest EXCEPT !.date = today]
    IN  BaseApi_get("/v1/neis/meals", PyDict(to_params(req)),
                    TList(TModel("Meal")), reply)

\* a faulty get_meals: a request with no field set gets today's date as well
get_meals_today_when_empty(request, today, reply) ==
    LET req == IF Truthy(request) /\ request # MealRequest THEN request
               ELSE [MealRequest EXCEPT !.date = today]
    IN  BaseApi_get("/v1/neis/meals", PyDict(to_params(req)),
                    TList(TModel("Meal")), reply)

\* api/neis.py; today is what Date.today() returns
get_meals(request, today, reply) ==
    LET req == IF Truthy(request) THEN request ELSE [MealRequest EXCEPT !.date = today]
    IN  BaseApi_get("/v1/neis/meals", PyDict(to_params(req)),
                    TList(TModel("Meal")), reply)

\* a faulty get_schedules: no request means a request with nothing set
get_schedules_undated(request, today, reply) ==
    LET req == IF Truthy(request) THEN request ELSE ScheduleRequest
    IN  BaseApi_get("/v1/neis/schedules", PyDict(to_params(req)),
                    TList(TModel("Schedule")), reply)

get_schedules(request, today, reply) ==
    LET req == IF Truthy(request) THEN request
               ELSE [ScheduleRequest EXCEPT !.date = today]
    IN  BaseApi_get("/v1/neis/schedules", PyDict(to_params(req)),
                    TList(TModel("Schedule")), reply)


(***************************************************************************)
(* What the service may answer: the replies the model draws from.          *)
(***************************************************************************)
RECURSIVE SetToSeq(_)
SetToSeq(S) ==
    IF S = {} THEN <<>>
    ELSE LET x == CHOOSE x \in S : TRUE IN <<x>> \o SetToSeq(S \ {x})

\* the JSON text of a value
RECURSIVE JsonText(_), JsonItems(_, _), JsonMembers(_, _, _)
JsonText(v) ==
    CASE v.t = "None" -> "null"
      [] v.t = "int" -> ToString(v.i)
      [] v.t = "str" -> "\"" \o v.s \o "\""
      [] v.t = "bool" -> BoolLower(v.b)
      [] v.t = "list" -> "[" \o JsonItems(v.items, 1) \o "]"
      [] v.t = "dict" -> "{" \o JsonMembers(v.fields, SetToSeq(DOMAIN v.fields), 1) \o "}"

JsonItems(items, i) ==
    IF i > Len(items) THEN ""
    ELSE JsonText(items[i]) \o (IF i < Len(items) THEN "," ELSE "")
         \o JsonItems(items, i + 1)

JsonMembers(fields, keys, i) ==
    IF i > Len(keys) THEN ""
    ELSE "\"" \o keys[i] \o "\":" \o JsonText(fields[keys[i]])
         \o (IF i < Len(keys) THEN "," ELSE "") \o JsonMembers(fields, keys, i + 1)

\* a body that is the JSON text of v
JsonDoc(v) == Doc(JsonText(v), v)

\* a body that is not JSON
TextDoc(text) == Doc(text, Undecodable)

\* f on the keys listed
RECURSIVE Restrict(_, _)
Restrict(f, keys) ==
    IF keys = <<>> THEN <<>>
    ELSE (keys[1] :> f[keys[1]]) @@ Restrict(f, Tail(keys))

\* f without its key k
Without(f, k) == Restrict(f, SetToSeq(DOMAIN f \ {k}))

Envelope(data) ==
    PyDict([status |-> PyStr("success"), code |-> PyInt(200), message |-> PyStr("ok"),
            data |-> data])

Page(key, items) ==
    PyDict((key :> PyList(items))
           @@ [totalPages |-> PyInt(1), totalElements |-> PyInt(Len(items))])

ParticipantJson(id) ==
    PyDict([id |-> PyInt(id), name |-> PyStr("kim"), email |-> PyStr("kim@gsm.hs.kr"),
            studentNumber |-> PyInt(1101), major |-> PyStr("AI"), sex |-> PyStr("MAN")])

ClubJson(id, type) ==
    PyDict([id |-> PyInt(id), name |-> PyStr("club"), type |-> PyStr(type)])

ClubDetailJson(id, type) ==
    PyDict([id |-> PyInt(id), name |-> PyStr("club"), type |-> PyStr(type),
            leader |-> ParticipantJson(7), participants |-> PyList(<<ParticipantJson(7)>>)])

StudentJson(id, sex) ==
    PyDict([id |-> PyInt(id), name |-> PyStr("kim"), sex |-> PyStr(sex),
            email |-> PyStr("kim@gsm.hs.kr"), grade |-> PyInt(1), classNum |-> PyInt(1),
            number |-> PyInt(1), studentNumber |-> PyInt(1101), major |-> PyStr("AI"),
            role |-> PyStr("GENERAL_STUDENT"), dormitoryRoom |-> PyInt(301),
            isLeaveSchool |-> PyBool(FALSE), majorClub |-> ClubJson(1, "MAJOR_CLUB"),
            jobClub |-> None])

ProjectJson(id, clubType) ==
    PyDict([id |-> PyInt(id), name |-> PyStr("project"), description |-> None,
            club |-> ClubJson(1, clubType), participants |-> PyList(<<>>)])

MealJson(id, mealType) ==
    PyDict([mealId |-> PyStr(id), schoolCode |-> PyStr("7380292"),
            schoolName |-> PyStr("GSM"), officeCode |-> PyStr("F10"),
            officeName |-> PyStr("Gwangju"), mealDate |-> PyStr("2026-02-03"),
            mealType |-> PyStr(mealType), mealMenu |-> PyList(<<PyStr("rice")>>)])

ScheduleJson(id, scheduleDate) ==
    PyDict([scheduleId |-> PyStr(id), schoolCode |-> PyStr("7380292"),
            schoolName |-> PyStr("GSM"), officeCode |-> PyStr("F10"),
            officeName |-> PyStr("Gwangju"), scheduleDate |-> PyStr(scheduleDate),
            eventName |-> PyStr("ceremony"), targetGrades |-> PyList(<<PyInt(1)>>)])

Paginated == {"students", "clubs", "projects"}

\* the key of an entity that names it
IdKey(res) ==
    CASE res = "meals" -> "mealId" [] res = "schedules" -> "scheduleId" [] OTHER -> "id"

\* two well-formed entities of a resource, told apart by more than their id
GoodItem(res, n) ==
    CASE res = "students" -> StudentJson(41 + n, IF n = 1 THEN "MAN" ELSE "WOMAN")
      [] res = "clubs" -> ClubDetailJson(41 + n, IF n = 1 THEN "JOB_CLUB" ELSE "MAJOR_CLUB")
      [] res = "projects" -> ProjectJson(41 + n, IF n = 1 THEN "JOB_CLUB" ELSE "MAJOR_CLUB")
      [] res = "meals" -> MealJson(ToString(41 + n), IF n = 1 THEN "LUNCH" ELSE "DINNER")
      [] res = "schedules" ->
            ScheduleJson(ToString(41 + n), IF n = 1 THEN "2026-03-01" ELSE "2026-03-02")

\* where an entity of the resource holds an enum-typed (for schedules: a
\* date-typed) value, as a path of keys, and a wire value outside that type
TypedPath(res) ==
    CASE res = "students" -> <<"sex">>
      [] res = "clubs" -> <<"type">>
      [] res = "projects" -> <<"club", "type">>
      [] res = "meals" -> <<"mealType">>
      [] res = "schedules" -> <<"scheduleDate">>

UnknownItem(res) ==
    CASE res = "students" -> StudentJson(42, "ROBOT")
      [] res = "clubs" -> ClubDetailJson(42, "SPORTS_CLUB")
      [] res = "projects" -> ProjectJson(42, "SPORTS_CLUB")
      [] res = "meals" -> MealJson("42", "SNACK")
      [] res = "schedules" -> ScheduleJson("42", "2026-02-30")

\* the data of a payload holding the items
DataOf(res, items) == IF res \in Paginated THEN Page(res, items) ELSE PyList(items)

\* the payloads of a resource, by what is wrong with them
Payload(res, shape) ==
    CASE shape = "empty" -> Envelope(DataOf(res, <<>>))
      [] shape = "one" -> Envelope(DataOf(res, <<GoodItem(res, 1)>>))
      [] shape = "two" -> Envelope(DataOf(res, <<GoodItem(res, 1), GoodItem(res, 2)>>))
      [] shape = "data_null" -> Envelope(None)
      [] shape = "data_absent" -> PyDict(Without(Envelope(None).fields, "data"))
      [] shape = "no_status" ->
            PyDict(Without(Envelope(DataOf(res, <<GoodItem(res, 1)>>)).fields, "status"))
      [] shape = "code_not_int" ->
            PyDict([Envelope(DataOf(res, <<GoodItem(res, 1)>>)).fields
                        EXCEPT !.code = PyStr("OK")])
      [] shape = "code_as_digits" ->
            PyDict([Envelope(DataOf(res, <<GoodItem(res, 1)>>)).fields
                        EXCEPT !.code = PyStr("200")])
      [] shape = "no_id" ->
            Envelope(DataOf(res, <<GoodItem(res, 1),
                                   PyDict(Without(GoodItem(res, 2).fields, IdKey(res)))>>))
      [] shape = "unknown_value" ->
            Envelope(DataOf(res, <<GoodItem(res, 1), UnknownItem(res)>>))
      [] shape = "status_error" ->
            PyDict([Envelope(DataOf(res, <<GoodItem(res, 1)>>)).fields
                        EXCEPT !.status = PyStr("error"), !.code = PyInt(500),
                               !.message = PyStr("internal error")])

Shapes ==
    {"empty", "one", "two", "data_null", "data_absent", "no_status", "code_not_int",
     "code_as_digits", "no_id", "unknown_value", "status_error"}

\* bodies an error response typically carries, and bodies that are not JSON
ErrorBodies ==
    {JsonDoc(PyDict([message |-> PyStr("not found")])),
     JsonDoc(PyDict([message |-> None])),
     JsonDoc(PyDict([message |-> PyInt(503)])),
     JsonDoc(PyDict([error |-> PyStr("down")])),
     JsonDoc(PyList(<<PyInt(1)>>)),
     JsonDoc(PyStr("down")),
     TextDoc(""),
     TextDoc("<html>Bad Gateway</html>")}

StatusCodes ==
    {100, 199, 200, 204, 299, 300, 304, 399, 400, 401, 402, 403, 404, 405, 428, 429,
     430, 499, 500, 503, 599, 600, 999}

Failures ==
    {Failure("ConnectError", "[Errno 111] Connection refused"),
     Failure("ConnectTimeout", "timed out"),
     Failure("ReadTimeout", "The read operation timed out"),
     Failure("ReadError", "[Errno 104] Connection reset by peer"),
     Failure("RemoteProtocolError", "Server disconnected without sending a response.")}

\* the replies to a request for a resource: any failure, any status with a
\* JSON and a non-JSON error body, any error body with a few statuses, and any
\* payload of the resource with a success status or 404
Replies(res) ==
    Failures
    \cup {Response(c, b) : c \in StatusCodes,
                           b \in {JsonDoc(PyDict([message |-> PyStr("not found")])),
                                  TextDoc("")}}
    \cup {Response(c, b) : c \in {200, 404, 503}, b \in ErrorBodies}
    \cup {Response(c, JsonDoc(Payload(res, shape))) : c \in {200, 299, 404}, shape \in Shapes}

\* a few of them, one of each kind
FewReplies(res) ==
    {Failure("ConnectError", "[Errno 111] Connection refused"),
     Response(404, JsonDoc(PyDict([message |-> PyStr("not found")]))),
     Response(503, TextDoc("<html>Bad Gateway</html>")),
     Response(200, TextDoc("")),
     Response(200, JsonDoc(Payload(res, "data_null"))),
     Response(200, JsonDoc(Payload(res, "empty"))),
     Response(200, JsonDoc(Payload(res, "one")))}

\* the replies each specification draws from, by resource
AllReplies ==
    [students |-> Replies("students"), clubs |-> Replies("clubs"),
     projects |-> Replies("projects"), meals |-> Replies("meals"),
     schedules |-> Replies("schedules")]

SomeReplies ==
    [students |-> FewReplies("students"), clubs |-> FewReplies("clubs"),
     projects |-> FewReplies("projects"), meals |-> FewReplies("meals"),
     schedules |-> FewReplies("schedules")]

EmptyPages ==
    [students |-> {Response(200, JsonDoc(Payload("students", "empty")))},
     clubs |-> {Response(200, JsonDoc(Payload("clubs", "empty")))},
     projects |-> {Response(200, JsonDoc(Payload("projects", "empty")))},
     meals |-> {Response(200, JsonDoc(Payload("meals", "empty")))},
     schedules |-> {Response(200, JsonDoc(Payload("schedules", "empty")))}]

(***************************************************************************)
(* client.py and _http.py: construction and the connection resource.       *)
(***************************************************************************)
\* str.rstrip("/")
RECURSIVE RStripSlash(_)
RStripSlash(str) ==
    IF Len(str) > 0 /\ SubSeq(str, Len(str), Len(str)) = "/"
    THEN RStripSlash(SubSeq(str, 1, Len(str) - 1))
    ELSE str

\* DataGsmClient(api_key="key"): the settings HttpClient.__init__ stores
DEFAULT_BASE_URL == "https://openapi.data.hellogsm.kr"

HttpClientInit ==
    [base_url |-> RStripSlash(DEFAULT_BASE_URL), api_key |-> "key", timeout |-> 30]

_get_headers ==
    [X_API_KEY |-> HttpClientInit.api_key,
     Accept |-> "application/json",
     User_Agent |-> "datagsm-openapi-sdk-python/0.1.0"]

\* httpx.Client(base_url=..., timeout=..., headers=...): a new open connection;
\* origin records the method that created it
NewHttpxClient(origin) ==
    [open |-> TRUE, base_url |-> HttpClientInit.base_url,
     timeout |-> HttpClientInit.timeout, headers |-> _get_headers, origin |-> origin,
     closes |-> 0]

\* a _get_client that builds an httpx.Client on every call
_get_client_reopening ==
    [_client |-> Len(conns) + 1, conns |-> Append(conns, NewHttpxClient("_get_client"))]

\* HttpClient._get_client: the values of _client and conns after it ran
_get_client ==
    IF _client = 0
    THEN [_client |-> Len(conns) + 1,
          conns |-> Append(conns, NewHttpxClient("_get_client"))]
    ELSE [_client |-> _client, conns |-> conns]

\* a close that closes the httpx.Client and keeps the reference to it
close_keeping_reference ==
    IF _client # 0
    THEN [_client |-> _client,
          conns |-> [conns EXCEPT ![_client].open = FALSE, ![_client].closes = @ + 1]]
    ELSE [_client |-> _client, conns |-> conns]

\* HttpClient.close: the values of _client and conns after it ran; closes counts
\* the calls of httpx.Client.close on a connection
close ==
    IF _client # 0
    THEN [_client |-> 0,
          conns |-> [conns EXCEPT ![_client].open = FALSE, ![_client].closes = @ + 1]]
    ELSE [_client |-> _client, conns |-> conns]

\* HttpClient.__enter__: the values of _client and conns after it ran
__enter__ ==
    [_client |-> Len(conns) + 1, conns |-> Append(conns, NewHttpxClient("__enter__"))]

OpenConns == {c \in 1..Len(conns) : conns[c].open}

(***************************************************************************)
(* The operations on one DataGsmClient.                                    *)
(***************************************************************************)
Ids == {PyInt(0), PyInt(42)}

Today == PyDate(2026, 11, 4)

\* the requests the list operations are called with, besides no request
Requests ==
    [students |-> {None, [StudentRequest EXCEPT !.grade = PyInt(1),
                                                !.is_leave_school = PyBool(FALSE)]},
     clubs |-> {None, [ClubRequest EXCEPT !.club_type = PyEnum("ClubType", "MAJOR_CLUB")]},
     projects |-> {None, [ProjectRequest EXCEPT !.club_id = PyInt(1)]},
     meals |-> {None, [MealRequest EXCEPT !.date = PyDate(2026, 2, 3)]},
     schedules |-> {None, [ScheduleRequest EXCEPT !.from_date = PyDate(2026, 3, 1),
                                                  !.to_date = PyDate(2026, 3, 31)]}]

\* client.get(path, params=params) on the httpx.Client that _get_client returns:
\* an open one answers with any of the replies, a closed one refuses to send
ClientGet(replies) ==
    IF _get_client.conns[_get_client._client].open THEN replies
    ELSE {Failure("RuntimeError", "Cannot send a request, as the client has been closed.")}

\* an accessor operation: HttpClient.get takes the connection, creating it when
\* there is none, and the operation ends with the result computed from the reply
AccessorOps ==
    {"get_students", "get_student", "get_clubs", "get_club", "get_projects",
     "get_project", "get_meals", "get_schedules"}

\* the caller is not inside an operation: the calls are synchronous, so that an
\* operation starts once the caller has the outcome of the one before
Ready == last.op \notin AccessorOps

\* a faulty call: an operation that raises discards the connection it used
Call_discarding_on_failure(op, arg, reply, result) ==
    /\ Ready
    /\ (_client = 0) => (Len(conns) < MaxConns)
    /\ _client' = IF result.outcome.kind = "raise" THEN 0 ELSE _get_client._client
    /\ conns' = IF result.outcome.kind = "raise"
                THEN [_get_client.conns EXCEPT ![_get_client._client].open = FALSE,
                                               ![_get_client._client].closes = @ + 1]
                ELSE _get_client.conns
    /\ last' = [op |-> op, arg |-> arg, reply |-> reply, conn |-> _get_client._client,
                requests |-> result.requests, outcome |-> result.outcome]
    /\ UNCHANGED <<depth, threads>>

Call(op, arg, reply, result) ==
    /\ Ready
    /\ (_client = 0) => (Len(conns) < MaxConns)
    /\ _client' = _get_client._client
    /\ conns' = _get_client.conns
    /\ last' = [op |-> op, arg |-> arg, reply |-> reply, conn |-> _get_client._client,
                requests |-> result.requests, outcome |-> result.outcome]
    /\ UNCHANGED <<depth, threads>>

GetStudents(requests, replies) ==
    \E request \in requests, reply \in ClientGet(replies) :
        Call("get_students", request, reply, get_students(request, reply))

GetStudent(replies) ==
    \E id \in Ids, reply \in ClientGet(replies) :
        Call("get_student", id, reply, get_student(id, reply))

GetClubs(requests, replies) ==
    \E request \in requests, reply \in ClientGet(replies) :
        Call("get_clubs", request, reply, get_clubs(request, reply))

GetClub(replies) ==
    \E id \in Ids, reply \in ClientGet(replies) :
        Call("get_club", id, reply, get_club(id, reply))

GetProjects(requests, replies) ==
    \E request \in requests, reply \in ClientGet(replies) :
        Call("get_projects", request, reply, get_projects(request, reply))

GetProject(replies) ==
    \E id \in Ids, reply \in ClientGet(replies) :
        Call("get_project", id, reply, get_project(id, reply))

GetMeals(requests, replies) ==
    \E request \in requests, reply \in ClientGet(replies) :
        Call("get_meals", request, reply, get_meals(request, Today, reply))

GetSchedules(requests, replies) ==
    \E request \in requests, reply \in ClientGet(replies) :
        Call("get_schedules", request, reply, get_schedules(request, Today, reply))

\* with client: ...  (DataGsmClient.__enter__ -> HttpClient.__enter__)
Enter ==
    /\ Ready
    /\ Len(conns) < MaxConns
    /\ _client' = __enter__._client
    /\ conns' = __enter__.conns
    /\ depth' = depth + 1
    /\ last' = [op |-> "__enter__"]
    /\ UNCHANGED threads

\* the end of a with-block  (DataGsmClient.__exit__ -> HttpClient.__exit__ -> close)
Exit ==
    /\ Ready
    /\ depth > 0
    /\ _client' = close._client
    /\ conns' = close.conns
    /\ depth' = depth - 1
    /\ last' = [op |-> "__exit__", held |-> _client]
    /\ UNCHANGED threads

\* client.close()  (DataGsmClient.close -> HttpClient.close)
Close ==
    /\ Ready
    /\ _client' = close._client
    /\ conns' = close.conns
    /\ last' = [op |-> "close", held |-> _client]
    /\ UNCHANGED <<depth, threads>>

\* the caller takes the value returned, or catches the exception raised
Resume ==
    /\ ~Ready
    /\ last' = [op |-> "resume"]
    /\ UNCHANGED <<_client, conns, depth, threads>>

(***************************************************************************)
(* Two threads that call get_students() on one client at once.  The        *)
(* interpreter may switch threads between any two bytecodes, so that the   *)
(* reads and the write of self._client in _get_client are steps of their   *)
(* own; what a thread computes from its own values is part of a step.      *)
(***************************************************************************)
Threads == {1, 2}

\* a thread that has not called yet: saw is the _client it read in the test,
\* made the httpx.Client it built, client the one _get_client returned
IdleThread == [pc |-> "idle", saw |-> 0, made |-> 0, client |-> 0, outcome |-> None]

\* "if self._client is None:"
ThreadCheck(t) ==
    /\ threads[t].pc = "idle"
    /\ threads' = [threads EXCEPT ![t].saw = _client,
                                  ![t].pc = IF _client = 0 THEN "create" ELSE "return"]
    /\ UNCHANGED <<_client, conns, depth, last>>

\* "httpx.Client(base_url=..., timeout=..., headers=...)"
ThreadCreate(t) ==
    /\ threads[t].pc = "create"
    /\ Len(conns) < MaxConns
    /\ conns' = Append(conns, NewHttpxClient("_get_client"))
    /\ threads' = [threads EXCEPT ![t].made = Len(conns) + 1, ![t].pc = "assign"]
    /\ UNCHANGED <<_client, depth, last>>

\* "self._client = ..."
ThreadAssign(t) ==
    /\ threads[t].pc = "assign"
    /\ _client' = threads[t].made
    /\ threads' = [threads EXCEPT ![t].pc = "return"]
    /\ UNCHANGED <<conns, depth, last>>

\* a return of the httpx.Client the thread built itself
ThreadReturn_made(t) ==
    /\ threads[t].pc = "return"
    /\ threads' = [threads EXCEPT ![t].client = IF threads[t].made # 0 THEN threads[t].made
                                                ELSE _client,
                                  ![t].pc = "send"]
    /\ UNCHANGED <<_client, conns, depth, last>>

\* "return self._client"
ThreadReturn(t) ==
    /\ threads[t].pc = "return"
    /\ threads' = [threads EXCEPT ![t].client = _client, ![t].pc = "send"]
    /\ UNCHANGED <<_client, conns, depth, last>>

\* "response = client.get(path, params=params)" and the rest of get_students
ThreadSend(t) ==
    /\ threads[t].pc = "send"
    /\ \E reply \in IF conns[threads[t].client].open THEN SomeReplies.students
                     ELSE {Failure("RuntimeError",
                                   "Cannot send a request, as the client has been closed.")} :
          threads' = [threads EXCEPT ![t].outcome = get_students(None, reply).outcome,
                                     ![t].pc = "done"]
    /\ UNCHANGED <<_client, conns, depth, last>>

AllDone == \A t \in Threads : threads[t].pc = "done"

\* client.close() once both threads have their outcome
CloseAfterThreads == AllDone /\ last.op # "close" /\ Close

Init ==
    /\ _client = 0
    /\ conns = <<>>
    /\ depth = 0
    /\ last = [op |-> "__init__"]
    /\ threads = [t \in Threads |-> IdleThread]

(***************************************************************************)
(* SpecCalls: the accessor operations of one client against every reply.   *)
(***************************************************************************)
NextCalls ==
    \/ GetStudents(Requests.students, AllReplies.students)
    \/ GetStudent(AllReplies.students)
    \/ GetClubs(Requests.clubs, AllReplies.clubs)
    \/ GetClub(AllReplies.clubs)
    \/ GetProjects(Requests.projects, AllReplies.projects)
    \/ GetProject(AllReplies.projects)
    \/ GetMeals(Requests.meals, AllReplies.meals)
    \/ GetSchedules(Requests.schedules, AllReplies.schedules)
    \/ Resume

SpecCalls == Init /\ [][NextCalls]_vars

(***************************************************************************)
(* SpecLifecycle: the accessor operations interleaved with scope entry,    *)
(* scope exit and close, against a few replies.                            *)
(***************************************************************************)
NextLifecycle ==
    \/ GetStudents(Requests.students, SomeReplies.students)
    \/ GetStudent(SomeReplies.students)
    \/ GetClubs(Requests.clubs, SomeReplies.clubs)
    \/ GetClub(SomeReplies.clubs)
    \/ GetProjects(Requests.projects, SomeReplies.projects)
    \/ GetProject(SomeReplies.projects)
    \/ GetMeals(Requests.meals, SomeReplies.meals)
    \/ GetSchedules(Requests.schedules, SomeReplies.schedules)
    \/ Enter
    \/ Exit
    \/ Close
    \/ Resume

SpecLifecycle == Init /\ [][NextLifecycle]_vars

(***************************************************************************)
(* SpecThreads: the first request of a client, issued by two threads at    *)
(* once, and a close() after both.                                         *)
(***************************************************************************)
NextThreads ==
    \/ \E t \in Threads : ThreadCheck(t)
    \/ \E t \in Threads : ThreadCreate(t)
    \/ \E t \in Threads : ThreadAssign(t)
    \/ \E t \in Threads : ThreadReturn(t)
    \/ \E t \in Threads : ThreadSend(t)
    \/ CloseAfterThreads

SpecThreads == Init /\ [][NextThreads]_vars

(***************************************************************************)
(* SpecParams: the list operations called with every combination of set    *)
(* and unset request fields, the service answering with an empty result.   *)
(* A field that is set holds one value of its type, for some fields the    *)
(* value whose truth value is false (0, "", False).                        *)
(***************************************************************************)
Filters ==
    [students |->
        {[StudentRequest EXCEPT !.student_id = student_id, !.name = name, !.email = email,
                                !.grade = grade, !.class_num = class_num, !.number = number,
                                !.sex = sex, !.role = role,
                                !.dormitory_room = dormitory_room,
                                !.is_leave_school = is_leave_school,
                                !.is_graduate = is_graduate, !.sort_by = sort_by] :
            student_id \in {None, PyInt(0)},
            name \in {None, PyStr("")},
            email \in {None, PyStr("kim@gsm.hs.kr")},
            grade \in {None, PyInt(1)},
            class_num \in {None, PyInt(2)},
            number \in {None, PyInt(3)},
            sex \in {None, PyEnum("Sex", "MAN")},
            role \in {None, PyEnum("StudentRole", "GENERAL_STUDENT")},
            dormitory_room \in {None, PyInt(301)},
            is_leave_school \in {None, PyBool(FALSE)},
            is_graduate \in {None, PyBool(TRUE)},
            sort_by \in {None, PyEnum("StudentSortBy", "NAME")}},
     clubs |->
        {[ClubRequest EXCEPT !.club_id = club_id, !.club_name = club_name,
                             !.club_type = club_type, !.page = page,
                             !.include_leader_in_participants = include_leader,
                             !.sort_by = sort_by, !.sort_direction = sort_direction] :
            club_id \in {None, PyInt(42)},
            club_name \in {None, PyStr("")},
            club_type \in {None, PyEnum("ClubType", "MAJOR_CLUB")},
            page \in {PyInt(0), PyInt(2)},
            include_leader \in {PyBool(FALSE), PyBool(TRUE)},
            sort_by \in {None, PyEnum("ClubSortBy", "TYPE")},
            sort_direction \in {PyEnum("SortDirection", "ASC"),
                                PyEnum("SortDirection", "DESC")}},
     projects |->
        {[ProjectRequest EXCEPT !.project_id = project_id, !.project_name = project_name,
                                !.club_id = club_id, !.size = size, !.sort_by = sort_by] :
            project_id \in {None, PyInt(0)},
            project_name \in {None, PyStr("sdk")},
            club_id \in {None, PyInt(1)},
            size \in {PyInt(100), PyInt(0)},
            sort_by \in {None, PyEnum("ProjectSortBy", "ID")}},
     meals |->
        {[MealRequest EXCEPT !.date = date, !.from_date = from_date, !.to_date = to_date] :
            date \in {None, PyDate(2026, 2, 3)},
            from_date \in {None, PyDate(2026, 3, 1)},
            to_date \in {None, PyDate(987, 12, 31)}},
     schedules |->
        {[ScheduleRequest EXCEPT !.date = date, !.from_date = from_date,
                                 !.to_date = to_date] :
            date \in {None, PyDate(2024, 2, 29)},
            from_date \in {None, PyDate(1, 1, 1)},
            to_date \in {None, PyDate(9999, 12, 31)}}]

NextParams ==
    \/ GetStudents(Filters.students, EmptyPages.students)
    \/ GetClubs(Filters.clubs, EmptyPages.clubs)
    \/ GetProjects(Filters.projects, EmptyPages.projects)
    \/ GetMeals(Filters.meals, EmptyPages.meals)
    \/ GetSchedules(Filters.schedules, EmptyPages.schedules)
    \/ Resume

SpecParams == Init /\ [][NextParams]_vars

(***************************************************************************)
(* The properties.  Each is stated on the state an operation leaves: last  *)
(* holds the operation, its argument, the reply of the service, the        *)
(* requests handed to the transport and the outcome.                       *)
(***************************************************************************)
\* an accessor operation has just ended
Called == last.op \in AccessorOps

\* ... and the service answered it with a response
Answered == Called /\ last.reply.kind = "response"

\* ... whose status code is not 2xx
AnsweredNon2xx == Answered /\ last.reply.status_code \notin 200..299

\* ... whose status code is 2xx
Answered2xx == Answered /\ last.reply.status_code \in 200..299

\* ... with an exception raised to the caller
Raised == Called /\ last.outcome.kind = "raise"

\* the kind of error the specification gives a status code that is not 2xx
KindOfStatus(status_code) ==
    CASE status_code = 400 -> "BadRequestException"
      [] status_code = 401 -> "UnauthorizedException"
      [] status_code = 403 -> "ForbiddenException"
      [] status_code = 404 -> "NotFoundException"
      [] status_code = 429 -> "RateLimitException"
      [] status_code \in 500..599 -> "ServerErrorException"
      [] OTHER -> "DataGsmException"

\* C1: for every response whose status code is not 2xx the operation raises,
\* and the kind of the error is the one the status code alone determines:
\* 400 BadRequest, 401 Unauthorized, 403 Forbidden, 404 NotFound, 429
\* RateLimit, 500..599 ServerError, any other code the generic service
\* error; whatever the body, and never a Network error.
C1_StatusDeterminesKind ==
    AnsweredNon2xx =>
        /\ Raised
        /\ last.outcome.exc.cls = KindOfStatus(last.reply.status_code)
        /\ last.outcome.exc.cls # "NetworkException"

\* C1, its case: a 600 response without a JSON body raises the generic error
C1_Witness ==
    /\ AnsweredNon2xx
    /\ last.reply.status_code = 600
    /\ last.reply.body.json = Undecodable
    /\ Raised
    /\ last.outcome.exc.cls = "DataGsmException"

\* C2: whatever the service answers, an accessor operation returns a value
\* or raises a member of the error taxonomy.  Refuted: a 2xx response whose
\* body is not JSON makes response.json() raise JSONDecodeError, which no
\* except clause of HttpClient.get or BaseApi._get catches.
C2_ClosedTaxonomy ==
    Called => (last.outcome.kind = "return" \/ last.outcome.exc.cls \in Taxonomy)

\* the attribute of a request object that each wire key is read from, as the
\* to_params methods pair them
AttributeOf ==
    [studentId |-> "student_id", name |-> "name", email |-> "email", grade |-> "grade",
     classNum |-> "class_num", number |-> "number", sex |-> "sex", role |-> "role",
     dormitoryRoom |-> "dormitory_room", isLeaveSchool |-> "is_leave_school",
     isGraduated |-> "is_graduate", page |-> "page", size |-> "size",
     sortBy |-> "sort_by", sortDirection |-> "sort_direction",
     clubId |-> "club_id", clubName |-> "club_name", clubType |-> "club_type",
     includeLeaderInParticipants |-> "include_leader_in_participants",
     projectId |-> "project_id", projectName |-> "project_name",
     date |-> "date", fromDate |-> "from_date", toDate |-> "to_date"]

\* a list operation has just ended that was given a request object
CalledWithRequest == Called /\ last.arg.t = "dataclass"

\* the parameter mapping of the one request it handed to the transport
WireParams == last.requests[1].params.fields

\* C3: in the parameter mapping handed to the transport, every key is the
\* wire key of a field of the request object that holds a value (is not
\* None), and no key carries None: a field left unset never appears.
C3_AbsentFieldsOmitted ==
    CalledWithRequest =>
        /\ Len(last.requests) = 1
        /\ last.requests[1].params.t = "dict"
        /\ \A key \in DOMAIN WireParams :
              /\ key \in DOMAIN AttributeOf
              /\ AttributeOf[key] \in DOMAIN last.arg
              /\ last.arg[AttributeOf[key]] # None
              /\ WireParams[key] # None

\* C3, its case: a student request with only the grade set (and the name
\* among the fields left unset) is sent as grade plus the defaulted fields
C3_Witness ==
    /\ CalledWithRequest
    /\ last.op = "get_students"
    /\ last.arg.grade = PyInt(1)
    /\ last.arg.name = None
    /\ DOMAIN WireParams = {"grade", "page", "size", "sortDirection"}

\* C4: at most one httpx.Client that was created is not yet closed.
\* Refuted: __enter__ assigns a new httpx.Client to _client without closing
\* the one a request, or an earlier __enter__, has put there.
C4_AtMostOneOpenConnection == Cardinality(OpenConns) <= 1

\* the resource an operation reads
ResourceOf(op) ==
    CASE op \in {"get_students", "get_student"} -> "students"
      [] op \in {"get_clubs", "get_club"} -> "clubs"
      [] op \in {"get_projects", "get_project"} -> "projects"
      [] op = "get_meals" -> "meals"
      [] op = "get_schedules" -> "schedules"

\* the decoded body is an envelope whose data is absent or null
DataMissing(json) ==
    /\ json.t = "dict"
    /\ {"status", "code", "message"} \subseteq DOMAIN json.fields
    /\ json.fields["status"].t = "str"
    /\ json.fields["code"].t = "int"
    /\ json.fields["message"].t = "str"
    /\ ("data" \in DOMAIN json.fields => json.fields["data"] = None)

\* C5: a 2xx response whose envelope has data absent or null makes every
\* operation, the get-single ones included, raise a Validation error with
\* an empty list of field errors; nothing is returned.
C5_MissingDataRaisesValidation ==
    (Answered2xx /\ DataMissing(last.reply.body.json)) =>
        /\ Raised
        /\ last.outcome.exc.cls = "ValidationException"
        /\ last.outcome.exc.validation_errors = PyList(<<>>)

\* C5, its case: get_club answered 200 with "data": null raises
\* "Response data is None"
C5_Witness ==
    /\ Answered2xx
    /\ last.op = "get_club"
    /\ last.reply.body.json = Envelope(None)
    /\ Raised
    /\ last.outcome.exc.cls = "ValidationException"
    /\ last.outcome.exc.message = PyStr("Response data is None")

\* the payloads that do not have the expected shape: an envelope field
\* missing, a value of the wrong type, a required entity field missing, a
\* value outside its closed set
MalformedShapes == {"no_status", "code_not_int", "no_id", "unknown_value"}

\* where the n-th entity of a payload is, and where the offending field is
EntityLoc(res, n) ==
    IF res \in Paginated THEN <<"data", res, ToString(n - 1)>>
    ELSE <<"data", ToString(n - 1)>>

OffendingLoc(res, shape) ==
    CASE shape = "no_status" -> <<"status">>
      [] shape = "code_not_int" -> <<"code">>
      [] shape = "no_id" -> EntityLoc(res, 2) \o <<IdKey(res)>>
      [] shape = "unknown_value" -> EntityLoc(res, 2) \o TypedPath(res)

GetSingleOps == {"get_student", "get_club", "get_project"}

ListPath(op) ==
    CASE op = "get_student" -> "/v1/students"
      [] op = "get_club" -> "/v1/clubs"
      [] op = "get_project" -> "/v1/projects"

IdFilter(op) ==
    CASE op = "get_student" -> "studentId"
      [] op = "get_club" -> "clubId"
      [] op = "get_project" -> "projectId"

\* the outcome of the list operation called with the id as its only filter
\* and answered with the same reply
ListOutcome ==
    CASE last.op = "get_student" ->
            get_students([StudentRequest EXCEPT !.student_id = last.arg], last.reply).outcome
      [] last.op = "get_club" ->
            get_clubs([ClubRequest EXCEPT !.club_id = last.arg], last.reply).outcome
      [] last.op = "get_project" ->
            get_projects([ProjectRequest EXCEPT !.project_id = last.arg], last.reply).outcome

\* the items of the page a list operation returned
ItemsOf(page) == page.attrs[ResourceOf(last.op)].items

CalledGetSingle == Called /\ last.op \in GetSingleOps

\* C7: a get-single operation sends one GET of the list path with the id
\* as filter; when the list call succeeds it returns None for no item and
\* else the first item as the list call decoded it, whatever follows; on
\* the payloads of the model: None for the empty page, the entity with id
\* 42 for the page holding 42 and 43.
C7_FirstItemOrNone ==
    CalledGetSingle =>
        /\ Len(last.requests) = 1
        /\ last.requests[1].method = "GET"
        /\ last.requests[1].path = ListPath(last.op)
        /\ IdFilter(last.op) \in DOMAIN last.requests[1].params.fields
        /\ last.requests[1].params.fields[IdFilter(last.op)] = last.arg
        /\ ListOutcome.kind = "return" =>
              IF ItemsOf(ListOutcome.value) = <<>>
              THEN last.outcome = Return(None)
              ELSE last.outcome = Return(ItemsOf(ListOutcome.value)[1])
        /\ (Answered2xx
              /\ last.reply.body.json = Payload(ResourceOf(last.op), "empty")) =>
              last.outcome = Return(None)
        /\ (Answered2xx
              /\ last.reply.body.json = Payload(ResourceOf(last.op), "two")) =>
              /\ last.outcome.kind = "return"
              /\ last.outcome.value # None
              /\ last.outcome.value.attrs.id = PyInt(42)

\* C7, its case: get_club(42) answered with the clubs 42 and 43 returns
\* the club 42, a JOB_CLUB (43 is a MAJOR_CLUB)
C7_Witness ==
    /\ CalledGetSingle
    /\ last.op = "get_club"
    /\ last.arg = PyInt(42)
    /\ Answered2xx
    /\ last.reply.body.json = Payload("clubs", "two")
    /\ last.outcome.kind = "return"
    /\ last.outcome.value.cls = "ClubDetail"
    /\ last.outcome.value.attrs.id = PyInt(42)
    /\ last.outcome.value.attrs.type = PyEnum("ClubType", "JOB_CLUB")

\* C8: a get-single operation returns None only when its list call
\* returned a page without items; whatever the list call raises (the error
\* of a 404 or another status, a Network error, a Validation error) is
\* what the get-single operation raises.
C8_ErrorsPropagate ==
    CalledGetSingle =>
        /\ ListOutcome.kind = "raise" => last.outcome = ListOutcome
        /\ last.outcome = Return(None) =>
              /\ ListOutcome.kind = "return"
              /\ ItemsOf(ListOutcome.value) = <<>>
        /\ AnsweredNon2xx => Raised
        /\ last.reply.kind = "failure" => Raised
        /\ (Answered /\ last.reply.status_code = 404) =>
              last.outcome.exc.cls = "NotFoundException"

\* C8, its case: get_project answered 404, the body an empty page, raises
\* NotFound
C8_Witness ==
    /\ CalledGetSingle
    /\ last.op = "get_project"
    /\ Answered
    /\ last.reply.status_code = 404
    /\ last.reply.body.json = Payload("projects", "empty")
    /\ Raised
    /\ last.outcome.exc.cls = "NotFoundException"
    /\ last.outcome.exc.status_code = PyInt(404)

\* the service did not answer: the connection failed or timed out
NoResponse ==
    /\ Called
    /\ last.reply.kind = "failure"
    /\ last.reply.exc.cls \in {"ConnectError", "ConnectTimeout", "ReadTimeout"}

\* C9: a connection failure or a timeout raises a Network error that holds
\* the httpx exception as its cause and no status code; and no Network
\* error, whatever raised it, holds a status code or lacks its cause.
C9_NetworkErrorHasCauseNoStatus ==
    /\ NoResponse =>
          /\ Raised
          /\ last.outcome.exc.cls = "NetworkException"
          /\ last.outcome.exc.original_exception = last.reply.exc
    /\ (Raised /\ last.outcome.exc.cls = "NetworkException") =>
          /\ last.outcome.exc.status_code = None
          /\ last.outcome.exc.original_exception # None
          /\ last.reply.kind = "failure"

\* C9, its case: a refused connection
C9_Witness ==
    /\ NoResponse
    /\ last.reply.exc.cls = "ConnectError"
    /\ Raised
    /\ last.outcome.exc.cls = "NetworkException"
    /\ last.outcome.exc.message = PyStr("Network error: [Errno 111] Connection refused")
    /\ last.outcome.exc.original_exception.cls = "ConnectError"
    /\ last.outcome.exc.status_code = None

\* C10: for every response whose status code is not 2xx, the error raised
\* carries that very status code.
C10_StatusCodeCarried ==
    AnsweredNon2xx =>
        /\ Raised
        /\ last.outcome.exc.status_code = PyInt(last.reply.status_code)

\* C10, its case: a 503 response raises a ServerError carrying 503
C10_Witness ==
    /\ AnsweredNon2xx
    /\ last.reply.status_code = 503
    /\ Raised
    /\ last.outcome.exc.cls = "ServerErrorException"
    /\ last.outcome.exc.status_code = PyInt(503)

\* the message the specification gives the error of a response: the message
\* field of a body that is a JSON object with that field, else the raw text
\* when there is some, else "HTTP <code> error"
MessageOf(response) ==
    IF /\ response.body.json # Undecodable
       /\ response.body.json.t = "dict"
       /\ "message" \in DOMAIN response.body.json.fields
    THEN response.body.json.fields["message"]
    ELSE IF response.body.text # "" THEN PyStr(response.body.text)
    ELSE PyStr("HTTP " \o ToString(response.status_code) \o " error")

\* C11: for every response whose status code is not 2xx, the message of
\* the error raised is the message field of the body when the body is a
\* JSON object holding one, else the raw response text when it is not
\* empty, else the string "HTTP <code> error" with the status code.
C11_MessageOfError ==
    AnsweredNon2xx =>
        /\ Raised
        /\ last.outcome.exc.message = MessageOf(last.reply)
        /\ last.reply.body.json = PyDict([message |-> PyStr("not found")]) =>
              last.outcome.exc.message = PyStr("not found")
        /\ last.reply.body.json = PyList(<<PyInt(1)>>) =>
              last.outcome.exc.message = PyStr("[1]")

\* C11, its case: a 503 response with an empty body
C11_Witness ==
    /\ AnsweredNon2xx
    /\ last.reply.status_code = 503
    /\ last.reply.body.text = ""
    /\ Raised
    /\ last.outcome.exc.message = PyStr("HTTP 503 error")

\* the path each operation is to request
PathOf(op) ==
    CASE op \in {"get_students", "get_student"} -> "/v1/students"
      [] op \in {"get_clubs", "get_club"} -> "/v1/clubs"
      [] op \in {"get_projects", "get_project"} -> "/v1/projects"
      [] op = "get_meals" -> "/v1/neis/meals"
      [] op = "get_schedules" -> "/v1/neis/schedules"

\* C12: every accessor operation, a list one or a get-single one, has
\* handed exactly one request to the transport when its outcome reaches
\* the caller, a GET of its resource path, whether it returned or raised:
\* nothing is sent again after a failure.
C12_ExactlyOneRequest ==
    Called =>
        /\ Len(last.requests) = 1
        /\ last.requests[1].method = "GET"
        /\ last.requests[1].path = PathOf(last.op)

\* C12, its case: get_student against a refused connection raises the
\* Network error after the one request
C12_Witness ==
    /\ Called
    /\ last.op = "get_student"
    /\ last.reply.kind = "failure"
    /\ last.reply.exc.cls = "ConnectError"
    /\ Raised
    /\ last.outcome.exc.cls = "NetworkException"
    /\ Len(last.requests) = 1

\* the caller has left every with-block it entered
ScopesExited == last.op = "__exit__" /\ depth = 0

\* C13: once the with-blocks are left, every httpx.Client that __enter__
\* created is closed and the client holds none.  Refuted: __enter__ inside
\* a with-block of the same client replaces the httpx.Client of the outer
\* entry, which no __exit__ closes.
C13_ScopeExitReleases ==
    ScopesExited =>
        /\ _client = 0
        /\ \A c \in 1..Len(conns) : conns[c].origin = "__enter__" => ~conns[c].open

\* close() has run, directly or as the end of a with-block
Closed == last.op \in {"close", "__exit__"}

\* C14: a close on a client that holds no connection (never opened, or closed
\* before) changes neither _client nor any connection, a close that follows a
\* close changes nothing either, and no connection is closed more than once.
C14_CloseIdempotent ==
    /\ [][(last'.op \in {"close", "__exit__"} /\ _client = 0) =>
              (_client' = _client /\ conns' = conns)]_vars
    /\ [][(Closed /\ last'.op \in {"close", "__exit__"}) =>
              (_client' = _client /\ conns' = conns)]_vars
    /\ [](\A c \in 1..Len(conns) : conns[c].closes <= 1)
    /\ [](Closed => _client = 0)

\* a close on a client whose connection was closed by a close before
C14_Witness ==
    /\ last.op = "close"
    /\ last.held = 0
    /\ Len(conns) = 1
    /\ conns[1].closes = 1
    /\ ~conns[1].open

UseAfterClose == Failure("RuntimeError", "Cannot send a request, as the client has been closed.")

SameSettings(c, d) ==
    /\ c.base_url = d.base_url
    /\ c.timeout = d.timeout
    /\ c.headers = d.headers

\* C15: an operation called when the client holds no connection (before the
\* first request, after close(), after a with-block) is sent on a new open
\* connection that has the base URL, the timeout and the three headers of the
\* client and of every connection before it; an operation called while a
\* connection is held is sent on that connection and creates none; no
\* operation is refused because its connection was closed.
C15_ReopensAfterClose ==
    /\ [][(last'.op \in AccessorOps /\ _client = 0) =>
              /\ _client' = Len(conns) + 1
              /\ last'.conn = _client'
              /\ Len(conns') = Len(conns) + 1
              /\ \A c \in 1..Len(conns) : conns'[c] = conns[c]
              /\ conns'[_client'].open
              /\ conns'[_client'].closes = 0
              /\ conns'[_client'].base_url = "https://openapi.data.hellogsm.kr"
              /\ conns'[_client'].timeout = 30
              /\ conns'[_client'].headers =
                     [X_API_KEY |-> "key", Accept |-> "application/json",
                      User_Agent |-> "datagsm-openapi-sdk-python/0.1.0"]
              /\ \A c \in 1..Len(conns) : SameSettings(conns'[_client'], conns[c])]_vars
    /\ [][(last'.op \in AccessorOps /\ _client # 0) =>
              /\ _client' = _client
              /\ conns' = conns
              /\ last'.conn = _client]_vars
    /\ [](Called => /\ last.reply # UseAfterClose
                     /\ conns[last.conn].open
                     /\ _client = last.conn)

\* a request answered on connection 2, made by _get_client after connection 1
\* was closed
C15_Witness ==
    /\ Called
    /\ last.conn = 2
    /\ conns[1].closes = 1
    /\ conns[2].open
    /\ conns[2].origin = "_get_client"
    /\ last.outcome.kind = "return"

BoolKeys == {"isLeaveSchool", "isGraduated", "includeLeaderInParticipants"}

\* C16: a boolean field of the request that holds True or False is sent
\* under its wire key as the string "true" or "false", and no value of the
\* parameter mapping handed to the transport is a bool.
C16_BooleansAsLowercaseStrings ==
    /\ CalledWithRequest =>
          \A key \in BoolKeys :
              (AttributeOf[key] \in DOMAIN last.arg /\ last.arg[AttributeOf[key]].t = "bool") =>
                  /\ key \in DOMAIN WireParams
                  /\ WireParams[key] =
                        IF last.arg[AttributeOf[key]].b THEN PyStr("true") ELSE PyStr("false")
    /\ Called => \A key \in DOMAIN WireParams : WireParams[key].t # "bool"

\* a student request with is_leave_school False and is_graduate True
C16_Witness ==
    /\ CalledWithRequest
    /\ last.op = "get_students"
    /\ last.arg.is_leave_school = PyBool(FALSE)
    /\ last.arg.is_graduate = PyBool(TRUE)
    /\ WireParams["isLeaveSchool"] = PyStr("false")
    /\ WireParams["isGraduated"] = PyStr("true")

\* a list operation has just ended that was given no request object
CalledWithoutRequest == Called /\ last.arg = None

\* C17: a list operation given no request sends exactly the defaults:
\* students page 0, size 300, sortDirection "ASC"; clubs page 0, size 100,
\* includeLeaderInParticipants "false", sortDirection "ASC"; projects
\* page 0, size 100, sortDirection "ASC"; and nothing else.
C17_DefaultsWithoutRequest ==
    CalledWithoutRequest =>
        /\ last.op = "get_students" =>
              WireParams = [page |-> PyInt(0), size |-> PyInt(300),
                            sortDirection |-> PyStr("ASC")]
        /\ last.op = "get_clubs" =>
              WireParams = [page |-> PyInt(0), size |-> PyInt(100),
                            includeLeaderInParticipants |-> PyStr("false"),
                            sortDirection |-> PyStr("ASC")]
        /\ last.op = "get_projects" =>
              WireParams = [page |-> PyInt(0), size |-> PyInt(100),
                            sortDirection |-> PyStr("ASC")]

\* get_clubs() sent its four defaults
C17_Witness ==
    /\ CalledWithoutRequest
    /\ last.op = "get_clubs"
    /\ DOMAIN WireParams = {"page", "size", "includeLeaderInParticipants", "sortDirection"}
    /\ WireParams["size"] = PyInt(100)

ListOps == {"get_students", "get_clubs", "get_projects", "get_meals", "get_schedules"}

\* the attribute of a decoded entity that holds its id
IdAttr(res) ==
    CASE res = "meals" -> "meal_id" [] res = "schedules" -> "schedule_id" [] OTHER -> "id"

\* the class of the page a paginated list operation returns
PageClass(res) ==
    CASE res = "students" -> "StudentResponse"
      [] res = "clubs" -> "ClubResponse"
      [] res = "projects" -> "ProjectResponse"

\* the entities of the payload a list operation returned: the list itself, or
\* the list inside the page
ReturnedItems ==
    IF ResourceOf(last.op) \in Paginated
    THEN last.outcome.value.attrs[ResourceOf(last.op)].items
    ELSE last.outcome.value.items

\* the list operation was answered 2xx with a well-formed envelope whose data
\* holds n well-formed entities
AnsweredItems(n) ==
    /\ Answered2xx
    /\ last.op \in ListOps
    /\ last.reply.body.json = Payload(ResourceOf(last.op), <<"empty", "one", "two">>[n + 1])

\* C18: a list operation answered 2xx with a well-formed envelope whose data
\* has the expected shape returns the payload: the page (students, clubs,
\* projects) or the list (meals, schedules), holding one decoded entity for
\* each entity of the data, in order; data with no entity is returned as an
\* empty page or an empty list, never raised as missing data.
C18_PayloadUnwrapped ==
    \A n \in 0..2 :
        AnsweredItems(n) =>
            /\ last.outcome.kind = "return"
            /\ IF ResourceOf(last.op) \in Paginated
               THEN /\ last.outcome.value.t = "model"
                    /\ last.outcome.value.cls = PageClass(ResourceOf(last.op))
                    /\ last.outcome.value.attrs.total_elements = PyInt(n)
                    /\ last.outcome.value.attrs.total_pages = PyInt(1)
               ELSE last.outcome.value.t = "list"
            /\ Len(ReturnedItems) = n
            /\ \A i \in 1..n :
                  /\ ReturnedItems[i].t = "model"
                  /\ ReturnedItems[i].attrs[IdAttr(ResourceOf(last.op))] =
                        GoodItem(ResourceOf(last.op), i).fields[IdKey(ResourceOf(last.op))]

\* get_meals answered with an envelope whose data is the empty list
C18_Witness ==
    /\ AnsweredItems(0)
    /\ last.op = "get_meals"
    /\ last.reply.body.json = Envelope(PyList(<<>>))
    /\ last.outcome = Return(PyList(<<>>))

DateKeys == {"date", "fromDate", "toDate"}

\* a meal or schedule operation has just ended that was given a request object
CalledWithDates == CalledWithRequest /\ last.op \in {"get_meals", "get_schedules"}

\* C19: a meal or schedule request with any of date, from_date, to_date set
\* or unset (none, one, two, all three) raises nothing on the client side
\* (answered well, the operation returns) and sends exactly the wire keys
\* date, fromDate, toDate of the fields that are set.
C19_AnyDateCombination ==
    CalledWithDates =>
        /\ Len(last.requests) = 1
        /\ DOMAIN WireParams = {key \in DateKeys : last.arg[AttributeOf[key]] # None}
        /\ Answered2xx => last.outcome.kind = "return"

\* a meal request with both a single date and the start of a range, no end
C19_Witness ==
    /\ CalledWithDates
    /\ last.op = "get_meals"
    /\ last.arg.date # None
    /\ last.arg.from_date # None
    /\ last.arg.to_date = None
    /\ DOMAIN WireParams = {"date", "fromDate"}
    /\ last.outcome.kind = "return"

\* the date field of a Meal or a Schedule, decoded from an entity of a response
\* that carries the wire string
DecodedDate(res, wire) ==
    IF res = "meals"
    THEN Validate(TModel("Meal"),
                  PyDict([GoodItem("meals", 1).fields EXCEPT !["mealDate"] = wire]), <<>>)
    ELSE Validate(TModel("Schedule"),
                  PyDict([GoodItem("schedules", 1).fields EXCEPT !["scheduleDate"] = wire]), <<>>)

DateAttr(res) == IF res = "meals" THEN "meal_date" ELSE "schedule_date"

\* the string has the form YYYY-MM-DD
IsYmd(s) ==
    /\ Len(s) = 10
    /\ AllDigits(SubSeq(s, 1, 4)) /\ SubSeq(s, 5, 5) = "-"
    /\ AllDigits(SubSeq(s, 6, 7)) /\ SubSeq(s, 8, 8) = "-"
    /\ AllDigits(SubSeq(s, 9, 10))

\* C20: every date a meal or schedule request sends goes out as a string
\* YYYY-MM-DD, and that string, decoded as the date field of a Meal and of a
\* Schedule of a response, gives the date of the request.
C20_DateRoundTrip ==
    (Called /\ last.op \in {"get_meals", "get_schedules"}) =>
        \A key \in DOMAIN WireParams :
            LET sent == IF last.arg = None THEN Today ELSE last.arg[AttributeOf[key]]
            IN  /\ WireParams[key].t = "str"
                /\ IsYmd(WireParams[key].s)
                /\ \A res \in {"meals", "schedules"} :
                      /\ DecodedDate(res, WireParams[key]).errs = <<>>
                      /\ DecodedDate(res, WireParams[key]).val.attrs[DateAttr(res)] = sent

\* a schedule request sent with the leap day, year 1 and year 9999
C20_Witness ==
    /\ CalledWithDates
    /\ last.op = "get_schedules"
    /\ last.arg.date = PyDate(2024, 2, 29)
    /\ last.arg.from_date = PyDate(1, 1, 1)
    /\ last.arg.to_date = PyDate(9999, 12, 31)
    /\ WireParams = [date |-> PyStr("2024-02-29"), fromDate |-> PyStr("0001-01-01"),
                     toDate |-> PyStr("9999-12-31")]

\* an operation has just raised an error of the taxonomy
RaisedTaxonomy == Raised /\ last.outcome.exc.cls \in Taxonomy

\* C21: the string form of an error of the taxonomy that an operation raised
\* is "[<status code>] <message>" when the error carries a status code and
\* the message alone when it carries none; a Network or Validation error
\* carries none and renders as its message.
C21_StringForm ==
    RaisedTaxonomy =>
        /\ last.outcome.exc.status_code # None =>
              __str__(last.outcome.exc) =
                  "[" \o ToString(last.outcome.exc.status_code.i) \o "] "
                      \o Str(last.outcome.exc.message)
        /\ last.outcome.exc.status_code = None =>
              __str__(last.outcome.exc) = last.outcome.exc.message.s
        /\ last.outcome.exc.cls \in {"NetworkException", "ValidationException"} =>
              /\ last.outcome.exc.status_code = None
              /\ __str__(last.outcome.exc) = last.outcome.exc.message.s
        /\ (AnsweredNon2xx /\ last.reply.status_code = 404
                /\ last.reply.body.json = PyDict([message |-> PyStr("not found")])) =>
              __str__(last.outcome.exc) = "[404] not found"

\* a 404 rendered with its code, as "[404] not found"
C21_Witness ==
    /\ RaisedTaxonomy
    /\ last.outcome.exc.cls = "NotFoundException"
    /\ last.outcome.exc.status_code = PyInt(404)
    /\ __str__(last.outcome.exc) = "[404] not found"

\* C22: get_meals() and get_schedules(), called with no request, send the
\* date parameter holding today's date (what Date.today() returns, the local
\* date of the client) and neither fromDate nor toDate.
C22_TodayWithoutRequest ==
    (CalledWithoutRequest /\ last.op \in {"get_meals", "get_schedules"}) =>
        /\ Len(last.requests) = 1
        /\ DOMAIN WireParams = {"date"}
        /\ WireParams["date"] = serialize_date(Today)
        /\ WireParams["date"] = PyStr("2026-11-04")

\* get_schedules() sent date=2026-11-04 alone
C22_Witness ==
    /\ CalledWithoutRequest
    /\ last.op = "get_schedules"
    /\ WireParams = [date |-> PyStr("2026-11-04")]

\* the wire keys of the request's class
KeysOf(request) == {key \in DOMAIN AttributeOf : AttributeOf[key] \in DOMAIN request}

\* C23: a field of the request that holds 0, False or the empty string is
\* sent under its wire key, as 0, "false" and "" respectively; only None is
\* left out.
C23_ZeroAndEmptyAreSent ==
    CalledWithRequest =>
        \A key \in KeysOf(last.arg) :
            LET value == last.arg[AttributeOf[key]]
            IN  /\ value = PyInt(0) =>
                      (key \in DOMAIN WireParams /\ WireParams[key] = PyInt(0))
                /\ value = PyStr("") =>
                      (key \in DOMAIN WireParams /\ WireParams[key] = PyStr(""))
                /\ value = PyBool(FALSE) =>
                      (key \in DOMAIN WireParams /\ WireParams[key] = PyStr("false"))

\* a student request with id 0, the empty name and is_leave_school False
C23_Witness ==
    /\ CalledWithRequest
    /\ last.op = "get_students"
    /\ last.arg.student_id = PyInt(0)
    /\ last.arg.name = PyStr("")
    /\ last.arg.is_leave_school = PyBool(FALSE)
    /\ last.arg.page = PyInt(0)
    /\ WireParams["studentId"] = PyInt(0)
    /\ WireParams["name"] = PyStr("")
    /\ WireParams["isLeaveSchool"] = PyStr("false")
    /\ WireParams["page"] = PyInt(0)

\* the threads that found no connection in the test of _get_client
SawNone == {t \in Threads : threads[t].saw = 0}

\* C24, as stated: two threads issue the first request of a client at once;
\* one httpx.Client is created, both requests use it, and close() leaves none
\* open.  Refuted: _get_client tests and assigns self._client in separate
\* steps with no lock, so both threads can pass the test.
C24_OneConnectionForBoth ==
    /\ AllDone => (Len(conns) = 1 /\ threads[1].client = threads[2].client)
    /\ (AllDone /\ last.op = "close") => OpenConns = {}

\* C24, amended: each thread that passes the test of _get_client before the
\* other has assigned creates an httpx.Client of its own, so that one or two
\* are created; each request goes out on the open httpx.Client that _client
\* holds when its thread returns from _get_client; close() closes the one
\* assigned last, and a second one stays open.  One is created, used by both
\* and closed by close() when one thread tests after the other has assigned.
C24_OnePerThreadThatSawNone ==
    /\ [](AllDone =>
            /\ Len(conns) = Cardinality(SawNone)
            /\ Len(conns) \in 1..2
            /\ \A t \in Threads :
                  /\ threads[t].client \in 1..Len(conns)
                  /\ threads[t].outcome #
                        Raise(Failure("RuntimeError",
                                      "Cannot send a request, as the client has been closed.").exc)
            /\ Cardinality(SawNone) = 1 =>
                  \A t \in Threads : threads[t].client = 1)
    /\ []((AllDone /\ last.op = "close") =>
            /\ last.held \in 1..Len(conns)
            /\ OpenConns = (1..Len(conns)) \ {last.held}
            /\ Cardinality(OpenConns) = Cardinality(SawNone) - 1)
    /\ [][\A t \in Threads :
             (threads[t].pc = "return" /\ threads'[t].pc = "send") =>
                 threads'[t].client = _client]_vars

\* both threads passed the test, two httpx.Client were created, and close()
\* has left one of them open
C24_Witness ==
    /\ AllDone
    /\ last.op = "close"
    /\ SawNone = Threads
    /\ Len(conns) = 2
    /\ Cardinality(OpenConns) = 1

\* C25: an operation that raises (status not 2xx, transport failure, body
\* that is not JSON, envelope that does not validate) changes nothing of the
\* connection state: called with a connection held, _client and every
\* connection are as before; after it the connection it used is open and
\* held, and the next operation is sent on it.
C25_FailureKeepsConnection ==
    /\ [][(last'.op \in AccessorOps /\ last'.outcome.kind = "raise" /\ _client # 0) =>
              /\ _client' = _client
              /\ conns' = conns
              /\ last'.conn = _client]_vars
    /\ [](Raised => /\ _client = last.conn
                     /\ conns[last.conn].open
                     /\ conns[last.conn].closes = 0)
    /\ [][(Raised /\ last'.op = "resume") => (_client' = _client /\ conns' = conns)]_vars
    /\ [][(last.op = "resume" /\ last'.op \in AccessorOps /\ _client # 0) =>
              (last'.conn = _client /\ conns' = conns)]_vars

\* an operation raised on connection 1 because the body of a 200 was not
\* JSON, and connection 1 is open and held
C25_Witness ==
    /\ Raised
    /\ last.conn = 1
    /\ Len(conns) = 1
    /\ conns[1].open
    /\ last.reply = Response(200, TextDoc(""))
    /\ last.outcome.exc.cls = "JSONDecodeError"

\* the outcome of the operation that has just ended, had the service answered
\* with another reply
OutcomeOn(reply) ==
    CASE last.op = "get_students" -> get_students(last.arg, reply).outcome
      [] last.op = "get_student" -> get_student(last.arg, reply).outcome
      [] last.op = "get_clubs" -> get_clubs(last.arg, reply).outcome
      [] last.op = "get_club" -> get_club(last.arg, reply).outcome
      [] last.op = "get_projects" -> get_projects(last.arg, reply).outcome
      [] last.op = "get_project" -> get_project(last.arg, reply).outcome
      [] last.op = "get_meals" -> get_meals(last.arg, Today, reply).outcome
      [] last.op = "get_schedules" -> get_schedules(last.arg, Today, reply).outcome

\* the body is an envelope with a string status, an integer code, a string
\* message and data
WellFormedEnvelope(json) ==
    /\ json # Undecodable
    /\ json.t = "dict"
    /\ DOMAIN json.fields = {"status", "code", "message", "data"}
    /\ json.fields.status.t = "str"
    /\ json.fields.code.t = "int"
    /\ json.fields.message.t = "str"

\* C26: for a 2xx response with a well-formed envelope the outcome is the
\* one of the envelope with status "success", code 200, message "ok" and the
\* same data: it depends on data alone.  The envelope with status "error"
\* and code 500 around one good entity raises nothing and returns what the
\* "success" envelope around it returns.
C26_OnlyDataMatters ==
    (Answered2xx /\ WellFormedEnvelope(last.reply.body.json)) =>
        /\ last.outcome =
              OutcomeOn(Response(200, JsonDoc(Envelope(last.reply.body.json.fields.data))))
        /\ last.reply.body.json = Payload(ResourceOf(last.op), "status_error") =>
              /\ last.outcome.kind = "return"
              /\ last.outcome =
                    OutcomeOn(Response(200, JsonDoc(Payload(ResourceOf(last.op), "one"))))

\* get_projects returned the page of an envelope with status "error", code 500
C26_Witness ==
    /\ Answered2xx
    /\ last.op = "get_projects"
    /\ last.reply.body.json = Payload("projects", "status_error")
    /\ last.reply.body.json.fields.status = PyStr("error")
    /\ last.reply.body.json.fields.code = PyInt(500)
    /\ last.outcome.kind = "return"
    /\ last.outcome.value.cls = "ProjectResponse"
    /\ Len(last.outcome.value.attrs.projects.items) = 1

\* C27: the error raised for a response that is not 2xx carries a message
\* that is a string and is not empty, whatever the body.  Refuted: the
\* message field of a JSON object body is taken as it is, so that null gives
\* the message None and a number gives a number.
C27_MessageNonEmptyString ==
    AnsweredNon2xx =>
        /\ Raised
        /\ last.outcome.exc.message.t = "str"
        /\ last.outcome.exc.message.s # ""

\* a meal or schedule operation has just ended that was given a request
\* object with none of date, from_date, to_date set
CalledWithEmptyDates ==
    /\ CalledWithDates
    /\ last.arg.date = None
    /\ last.arg.from_date = None
    /\ last.arg.to_date = None

\* C28: a meal or schedule request object with no field set is sent with no
\* parameter at all: the mapping handed to the transport is the empty dict,
\* without date, fromDate or toDate; today's date is not filled in.
C28_EmptyRequestSendsNoDate ==
    CalledWithEmptyDates =>
        /\ Len(last.requests) = 1
        /\ last.requests[1].params = PyDict(<<>>)
        /\ DOMAIN WireParams \cap DateKeys = {}

\* get_meals(MealRequest()) sent the empty dict and returned
C28_Witness ==
    /\ CalledWithEmptyDates
    /\ last.op = "get_meals"
    /\ last.arg = MealRequest
    /\ DOMAIN WireParams = {}
    /\ last.outcome.kind = "return"

=============================================================================
